---- MODULE Spec2Model ----
(***************************************************************************)
(* Wave Function Collapse map generator: Rules, Map and the collapse       *)
(* solvers (fast.rs, optimised.rs, backtracking.rs), modelled as state     *)
(* machines.  One action is one handler or one loop iteration of the       *)
(* source.                                                                 *)
(***************************************************************************)
EXTENDS Integers, Sequences, FiniteSets, TLC

VARIABLES
    algo,               \* which collapse implementation runs: "fast", "opt", "bt"
    map,                \* the input Map (cells)
    rules,              \* the Rules value: masks and frequencies
    domains,            \* domains[c]: set of candidate tiles of cell c
    domain_sizes,       \* cached count per cell (domain_sizes / counts)
    queue,              \* propagation queue of arcs <<xi, xj, dir>>
    iteration_count,    \* arc revisions of the running propagation
    bucket_sets,        \* bucket_sets[e]: cells of entropy e
    affected_cells,     \* cells shrunk by the running propagation
    pc,                 \* position in collapse()
    result,             \* the returned map (meaningful when pc = "done")
    error,              \* the failure returned (meaningful when pc = "failed")
    decision_stack,     \* backtracking: stack of DecisionPoint
    backtrack_attempts, \* backtracking: contradictions counted
    draws,              \* number of Rng draws made so far
    last_draw,          \* kind of the last Rng draw: "none", "weighted", "uniform"
    rng_log,            \* the Rng outcomes of the first run, in order
    replay,             \* "recording" (first run), "replaying" or "diverged" (second run)
    first_result,       \* the map returned by the first run
    adjacency_matrix,   \* Rules round trip: the matrix given to Rules::new
    freqs,              \* Rules round trip: the frequencies given to Rules::new
    built,              \* Rules round trip: the Rules value built from them
    saved,              \* Rules round trip: adjacency_matrix() of built
    reloaded,           \* Rules round trip: Rules::new(saved, frequencies)
    saved_again,        \* Rules round trip: adjacency_matrix() of reloaded
    rpc,                \* Rules round trip: position
    tmap,               \* Map text round trip: the map written (rows of cells)
    text,               \* Map text round trip: the text written for tmap
    parsed,             \* Map text round trip: Map::from_str(text)
    text_again,         \* Map text round trip: the text written for parsed
    tpc,                \* Map text round trip: position
    rs_rules,           \* RuleSet::new: the Vec<Rule> given
    rs_outcome,         \* RuleSet::new: "start", "ok" or "panicked"
    bc_map,             \* bordering_chunk: the map it is called on (rows of cells)
    bc_direction,       \* bordering_chunk: the direction argument
    bc_border_size,     \* bordering_chunk: the border_size argument
    bc_chunk,           \* bordering_chunk: the chunk returned
    bc_pc,              \* bordering_chunk: "start", "returned" or "panicked"
    chunks,             \* chunked driver: the grid of chunks
    new_map,            \* chunked driver: the template of the last solve
    pass,               \* chunked driver: "initial", "north_south", "west_east", "done"
    cy,                 \* chunked driver: loop variable y
    cx,                 \* chunked driver: loop variable x
    solve_count,        \* chunked driver: collapse_map calls made per chunk position
    chunk_border,       \* chunked driver: config.border_size
    sb_self,            \* set_shared_border: the map it is called on, before the call
    sb_other,           \* set_shared_border: the other map
    sb_direction,       \* set_shared_border: the direction argument
    sb_border_size,     \* set_shared_border: the border_size argument
    sb_result,          \* set_shared_border: the map it is called on, after the call
    sb_pc,              \* set_shared_border: "start", "returned" or "panicked"
    max_iterations,     \* common.rs: the max_iterations argument of both propagations
    total_revisions,    \* common.rs: calls of revise made since the solve began
    sizes_before,       \* common.rs: domain_sizes on entry of propagate_constraints
    domains_before,     \* common.rs: domains on entry of propagate_constraints
    backtrack_state,    \* common.rs: the BacktrackState given to propagate_constraints
    tb_tiles,           \* TilesetBuilder: tiles
    tb_frequencies,     \* TilesetBuilder: frequencies
    tb_processed,       \* TilesetBuilder: the transformed images add_tiles has looked up
    tb_transformations, \* TilesetBuilder: the transformations of the last add_tiles
    tb_calls,           \* TilesetBuilder: add_tiles calls made
    tb_pc               \* TilesetBuilder: "new", "returned" or "panicked"

solverVars == <<algo, map, rules, domains, domain_sizes, queue, iteration_count,
                bucket_sets, affected_cells, pc, result, error, decision_stack,
                backtrack_attempts, draws, last_draw, rng_log, replay, first_result>>

rulesVars == <<adjacency_matrix, freqs, built, saved, reloaded, saved_again, rpc>>

textVars == <<tmap, text, parsed, text_again, tpc>>

ruleSetVars == <<rs_rules, rs_outcome>>

borderVars == <<bc_map, bc_direction, bc_border_size, bc_chunk, bc_pc>>

chunkVars == <<chunks, new_map, pass, cy, cx, solve_count, chunk_border>>

sharedVars == <<sb_self, sb_other, sb_direction, sb_border_size, sb_result, sb_pc>>

commonVars == <<max_iterations, total_revisions, sizes_before, domains_before,
                backtrack_state>>

builderVars == <<tb_tiles, tb_frequencies, tb_processed, tb_transformations,
                 tb_calls, tb_pc>>

extraVars == <<sharedVars, commonVars, builderVars>>

auxVars == <<ruleSetVars, borderVars, chunkVars, extraVars>>

vars == <<solverVars, rulesVars, textVars, auxVars>>

----------------------------------------------------------------------------
(* Bounds of the model *)

Height == 2
Width == 2
MaxSeeds == 2
MaxRuleTiles == 2

----------------------------------------------------------------------------
(* Directions *)

Direction == {"North", "East", "South", "West"}

ALL_DIRECTIONS == <<"North", "East", "South", "West">>

opposite(d) ==
    CASE d = "North" -> "South"
      [] d = "East"  -> "West"
      [] d = "South" -> "North"
      [] d = "West"  -> "East"

----------------------------------------------------------------------------
(* Cells and maps *)

Ignore == [tag |-> "Ignore", index |-> 0]
Wildcard == [tag |-> "Wildcard", index |-> 0]
Fixed(i) == [tag |-> "Fixed", index |-> i]

\* the cells of a height x width grid
GridCells(h, w) == (0 .. h - 1) \X (0 .. w - 1)

\* the cells of the map given to collapse (map.height() x map.width())
Cells == DOMAIN map

\* m.width()
GridWidth(m) == Cardinality({c[2] : c \in DOMAIN m})

\* cells in row-major order, as the nested y/x loops (or idx in 0..size) visit them
CellSeqOf(m) ==
    [k \in 1 .. Cardinality(DOMAIN m) |->
        <<(k - 1) \div GridWidth(m), (k - 1) % GridWidth(m)>>]

CellSeq == CellSeqOf(map)

\* mutant of Min: the largest element
MaxOf(S) == CHOOSE x \in S : \A y \in S : x >= y

Min(S) == CHOOSE x \in S : \A y \in S : x <= y

\* Map::mask: TRUE for the cells that are Ignore
mask(m) == [c \in DOMAIN m |-> m[c].tag = "Ignore"]

\* mutant of domain: a Fixed cell is as free as a Wildcard
domainFixedIsFree(cell, num_tiles) ==
    CASE cell.tag = "Ignore"   -> {}
      [] cell.tag = "Wildcard" -> 0 .. num_tiles - 1
      [] cell.tag = "Fixed"    -> 0 .. num_tiles - 1

\* Cell::domain
domain(cell, num_tiles) ==
    CASE cell.tag = "Ignore"   -> {}
      [] cell.tag = "Wildcard" -> 0 .. num_tiles - 1
      [] cell.tag = "Fixed"    -> {cell.index}

\* Map::domains
MapDomains(m, num_tiles) == [c \in DOMAIN m |-> domain(m[c], num_tiles)]

----------------------------------------------------------------------------
(* Rules *)

\* mutant of RulesNew: South and West read the matrix like North and East
RulesNewNoTranspose(adj, frequencies) ==
    LET num_tiles == Cardinality(DOMAIN frequencies)
        T == 0 .. num_tiles - 1
    IN [masks |-> [j \in T |-> [d \in Direction |->
            CASE d = "North" -> {i \in T : adj[j, i, 1]}
              [] d = "East"  -> {i \in T : adj[j, i, 0]}
              [] d = "South" -> {i \in T : adj[j, i, 1]}
              [] d = "West"  -> {i \in T : adj[j, i, 0]}]],
        frequencies |-> frequencies]

\* Rules::new (the assertions on the frequencies are the guard of the callers)
RulesNew(adj, frequencies) ==
    LET num_tiles == Cardinality(DOMAIN frequencies)
        T == 0 .. num_tiles - 1
    IN [masks |-> [j \in T |-> [d \in Direction |->
            CASE d = "North" -> {i \in T : adj[j, i, 1]}
              [] d = "East"  -> {i \in T : adj[j, i, 0]}
              [] d = "South" -> {i \in T : adj[i, j, 1]}
              [] d = "West"  -> {i \in T : adj[i, j, 0]}]],
        frequencies |-> frequencies]

\* mutant of RulesNewAccepts: a frequency of 0 is let through
RulesNewAcceptsZero(adj, f) ==
    /\ Cardinality(DOMAIN f) > 0
    /\ DOMAIN adj = (DOMAIN f) \X (DOMAIN f) \X (0 .. 1)

\* the assertions at the head of Rules::new
RulesNewAccepts(adj, f) ==
    /\ \A t \in DOMAIN f : f[t] > 0
    /\ Cardinality(DOMAIN f) > 0
    /\ DOMAIN adj = (DOMAIN f) \X (DOMAIN f) \X (0 .. 1)

\* Rules::len
RulesLen(r) == Cardinality(DOMAIN r.masks)

\* Rules::adjacency_matrix
AdjacencyMatrix(r) ==
    LET T == 0 .. RulesLen(r) - 1
    IN [i \in T, j \in T, k \in 0 .. 1 |->
            IF k = 0 THEN j \in r.masks[i]["East"]
                     ELSE i \in r.masks[j]["North"]]

----------------------------------------------------------------------------
(* Input atlases: adjacency matrices [n, n, 2] (index 0: East, 1: North) and *)
(* frequencies, the arguments of Rules::new                                  *)

\* one tile, adjacent to itself in all directions
SingleAtlas ==
    [adj |-> [i \in 0 .. 0, j \in 0 .. 0, k \in 0 .. 1 |-> TRUE],
     frequencies |-> [t \in 0 .. 0 |-> 10]]

\* checkerboard: only A-B adjacencies
CheckerAtlas ==
    [adj |-> [i \in 0 .. 1, j \in 0 .. 1, k \in 0 .. 1 |-> i # j],
     frequencies |-> [t \in 0 .. 1 |-> 1]]

\* two tiles, every adjacency allowed
FreeAtlas ==
    [adj |-> [i \in 0 .. 1, j \in 0 .. 1, k \in 0 .. 1 |-> TRUE],
     frequencies |-> [t \in 0 .. 1 |-> t + 1]]

\* tile 0 tiles the plane alone; tiles 1..3 support each other on every arc
\* (East: 1->2->3->1, North: 1<->2, 3->3) but close no 2 x 2 loop
TrapAtlas ==
    [adj |-> [i \in 0 .. 3, j \in 0 .. 3, k \in 0 .. 1 |->
                IF i = 0 \/ j = 0 THEN i = j
                ELSE IF k = 0 THEN j = (i % 3) + 1
                ELSE (i = 1 /\ j = 2) \/ (i = 2 /\ j = 1) \/ (i = 3 /\ j = 3)],
     frequencies |-> [t \in 0 .. 3 |-> 1]]

\* East relation not symmetric as a matrix, North relation not symmetric either
ChainAtlas ==
    [adj |-> [i \in 0 .. 2, j \in 0 .. 2, k \in 0 .. 1 |->
                IF k = 0 THEN j = (i + 1) % 3 \/ j = i
                ELSE j = (i + 2) % 3 \/ j = i],
     frequencies |-> [t \in 0 .. 2 |-> 1]]

\* two tiles, every adjacency allowed, one frequency 0
ZeroFrequencyAtlas ==
    [adj |-> [i \in 0 .. 1, j \in 0 .. 1, k \in 0 .. 1 |-> TRUE],
     frequencies |-> [t \in 0 .. 1 |-> t]]

\* the tiles 1..3 of TrapAtlas alone: every tile has a support on every arc
\* (East: 0->1->2->0, North: 0<->1, 2->2), and no 2 x 2 map is valid
LoopFreeAtlas ==
    [adj |-> [i \in 0 .. 2, j \in 0 .. 2, k \in 0 .. 1 |->
                IF k = 0 THEN j = (i + 1) % 3
                ELSE (i = 0 /\ j = 1) \/ (i = 1 /\ j = 0) \/ (i = 2 /\ j = 2)],
     frequencies |-> [t \in 0 .. 2 |-> 1]]

Atlases == {SingleAtlas, CheckerAtlas, FreeAtlas, TrapAtlas, ChainAtlas,
            ZeroFrequencyAtlas, LoopFreeAtlas}

NumTiles(atlas) == Cardinality(DOMAIN atlas.frequencies)

\* the maps given to collapse: at most MaxSeeds cells are not Wildcard, and
\* every Fixed index is a tile of the atlas
Special(n) == {Ignore} \cup {Fixed(i) : i \in 0 .. n - 1}

Maps(n) ==
    UNION { { [c \in GridCells(Height, Width) |-> IF c \in S THEN f[c] ELSE Wildcard] :
                f \in [S -> Special(n)] } :
            S \in {T \in SUBSET GridCells(Height, Width) : Cardinality(T) <= MaxSeeds} }

----------------------------------------------------------------------------
(* Solver: geometry and arcs *)

MAX_ITERATIONS_FAST == 1000000000
MAX_ITERATIONS == 1000000
MAX_BACKTRACK_ATTEMPTS == 1000

\* mutant of MaxIterations: the propagations of common.rs stop at twice the
\* bound they are given
MaxIterationsTwice(a) ==
    CASE a = "fast"   -> MAX_ITERATIONS_FAST
      [] a = "common" -> 2 * max_iterations
      [] OTHER        -> MAX_ITERATIONS

MaxIterations(a) ==
    CASE a = "fast"   -> MAX_ITERATIONS_FAST
      [] a = "common" -> max_iterations
      [] OTHER        -> MAX_ITERATIONS

\* fast.rs DIRECTION_DELTAS
DIRECTION_DELTAS(d) ==
    CASE d = "North" -> <<1, 0>>
      [] d = "East"  -> <<0, 1>>
      [] d = "South" -> <<-1, 0>>
      [] d = "West"  -> <<0, -1>>

\* optimised.rs / backtracking.rs delta_from_direction
delta_from_direction(d) ==
    CASE d = "North" -> <<-1, 0>>
      [] d = "East"  -> <<0, 1>>
      [] d = "South" -> <<1, 0>>
      [] d = "West"  -> <<0, -1>>

Delta(a, d) == IF a = "fast" THEN DIRECTION_DELTAS(d) ELSE delta_from_direction(d)

Step(a, c, d) == <<c[1] + Delta(a, d)[1], c[2] + Delta(a, d)[2]>>

\* mutant of neighbours: an Ignore cell in bounds is kept as a neighbour
NeighboursThroughIgnore(a, m, c) ==
    LET ds == SelectSeq(ALL_DIRECTIONS, LAMBDA d : Step(a, c, d) \in DOMAIN m)
    IN [k \in 1 .. Len(ds) |->
           [pos |-> Step(a, c, ds[k]), dir |-> ds[k], opp_dir |-> opposite(ds[k])]]

\* the precomputed neighbour list of cell c: in-bounds, not Ignore, in
\* ALL_DIRECTIONS order
neighbours(a, m, c) ==
    LET ds == SelectSeq(ALL_DIRECTIONS,
                 LAMBDA d : Step(a, c, d) \in DOMAIN m /\ ~mask(m)[Step(a, c, d)])
    IN IF a \in {"fast", "common"} /\ mask(m)[c] THEN <<>>
       ELSE [k \in 1 .. Len(ds) |->
               [pos |-> Step(a, c, ds[k]), dir |-> ds[k], opp_dir |-> opposite(ds[k])]]

\* mutant of CellArcs: no arc is put on the initial queue
CellArcsNone(a, m, c) == <<>>

\* arcs (c, neighbour, dir) of one cell, for the initial queue
CellArcs(a, m, c) ==
    LET ns == neighbours(a, m, c)
    IN [k \in 1 .. Len(ns) |-> <<c, ns[k].pos, ns[k].dir>>]

RECURSIVE InitialArcs(_, _, _)
\* initial queue population with all constraints
InitialArcs(a, m, k) ==
    IF k > Cardinality(DOMAIN m) THEN <<>>
    ELSE (IF mask(m)[CellSeqOf(m)[k]] THEN <<>> ELSE CellArcs(a, m, CellSeqOf(m)[k]))
         \o InitialArcs(a, m, k + 1)

\* mutant of ArcsFrom: a collapsed cell enqueues no arc
ArcsFromNoNeighbours(a, m, xi) == <<>>

\* arcs (neighbour, xi, opp_dir) for every neighbour of xi
ArcsFrom(a, m, xi) ==
    LET ns == neighbours(a, m, xi)
    IN [k \in 1 .. Len(ns) |-> <<ns[k].pos, xi, ns[k].opp_dir>>]


\* mutant of ArcsFromExcept: a shrunk cell enqueues no arc
ArcsFromExceptNothing(a, m, xi, xj) == <<>>

\* arcs (neighbour, xi, opp_dir) for every neighbour of xi except xj
ArcsFromExcept(a, m, xi, xj) ==
    SelectSeq(ArcsFrom(a, m, xi), LAMBDA arc : arc[1] # xj)

----------------------------------------------------------------------------
(* Solver: revise *)


\* fast.rs revise (common.rs revise computes the same)
ReviseFast(doms, sizes, masks, xi, xj, dir) ==
    IF sizes[xi] <= 1
    THEN [domains |-> doms, sizes |-> sizes, modified |-> FALSE]
    ELSE LET to_remove ==
                 IF sizes[xj] = 1
                 THEN LET v == Min(doms[xj])
                      IN {u \in doms[xi] : v \notin masks[u][dir]}
                 ELSE {u \in doms[xi] : \A v \in doms[xj] : v \notin masks[u][dir]}
         IN IF to_remove = {}
            THEN [domains |-> doms, sizes |-> sizes, modified |-> FALSE]
            ELSE [domains |-> [doms EXCEPT ![xi] = @ \ to_remove],
                  sizes |-> [sizes EXCEPT ![xi] = @ - Cardinality(to_remove)],
                  modified |-> TRUE]

\* mutant of ReviseOpt: the count is decremented once per call, not once per
\* removed tile
ReviseOptOneDecrement(doms, counts, masks, xi, xj, dir) ==
    LET removed == {u \in doms[xi] : \A v \in doms[xj] : v \notin masks[u][dir]}
    IN [domains |-> [doms EXCEPT ![xi] = @ \ removed],
        sizes |-> IF removed = {} THEN counts ELSE [counts EXCEPT ![xi] = @ - 1],
        modified |-> removed # {}]

\* mutant of ReviseOpt: a cell that is already a singleton is never revised
ReviseOptEarlyExit(doms, counts, masks, xi, xj, dir) ==
    LET removed == IF counts[xi] <= 1 THEN {}
                   ELSE {u \in doms[xi] : \A v \in doms[xj] : v \notin masks[u][dir]}
    IN [domains |-> [doms EXCEPT ![xi] = @ \ removed],
        sizes |-> [counts EXCEPT ![xi] = @ - Cardinality(removed)],
        modified |-> removed # {}]

\* optimised.rs / backtracking.rs revise
ReviseOpt(doms, counts, masks, xi, xj, dir) ==
    LET removed == {u \in doms[xi] : \A v \in doms[xj] : v \notin masks[u][dir]}
    IN [domains |-> [doms EXCEPT ![xi] = @ \ removed],
        sizes |-> [counts EXCEPT ![xi] = @ - Cardinality(removed)],
        modified |-> removed # {}]

\* common.rs revise: the early exit, the path for a singleton xj, the
\* standard path
ReviseCommon(doms, sizes, masks, xi, xj, dir) ==
    IF sizes[xi] <= 1
    THEN [domains |-> doms, sizes |-> sizes, modified |-> FALSE]
    ELSE IF sizes[xj] = 1
    THEN LET v == Min(doms[xj])
             to_remove == {u \in doms[xi] : v \notin masks[u][dir]}
             remove_count == Cardinality(to_remove)
         IN IF remove_count > 0
            THEN [domains |-> [doms EXCEPT ![xi] = @ \ to_remove],
                  sizes |-> [sizes EXCEPT ![xi] = @ - remove_count],
                  modified |-> TRUE]
            ELSE [domains |-> doms, sizes |-> sizes, modified |-> FALSE]
    ELSE LET unsupported == {u \in doms[xi] : ~\E v \in doms[xj] : v \in masks[u][dir]}
             modified_count == Cardinality(unsupported)
         IN IF modified_count > 0
            THEN [domains |-> [doms EXCEPT ![xi] = @ \ unsupported],
                  sizes |-> [sizes EXCEPT ![xi] = @ - modified_count],
                  modified |-> TRUE]
            ELSE [domains |-> doms, sizes |-> sizes, modified |-> FALSE]

revise(a, doms, sizes, masks, xi, xj, dir) ==
    CASE a = "fast"   -> ReviseFast(doms, sizes, masks, xi, xj, dir)
      [] a = "common" -> ReviseCommon(doms, sizes, masks, xi, xj, dir)
      [] OTHER        -> ReviseOpt(doms, sizes, masks, xi, xj, dir)

\* one iteration of a `while let Some((xi, xj, dir)) = queue.pop_front()` loop
PopAndRevise(a, m, r, doms, sizes, q, count) ==
    LET xi == Head(q)[1]
        xj == Head(q)[2]
        dir == Head(q)[3]
        rv == revise(a, doms, sizes, r.masks, xi, xj, dir)
    IN IF count + 1 > MaxIterations(a)
       THEN [status |-> "limit", xi |-> xi, domains |-> doms, sizes |-> sizes,
             queue |-> Tail(q), modified |-> FALSE]
       ELSE IF rv.modified /\ rv.sizes[xi] = 0
       THEN [status |-> "contradiction", xi |-> xi, domains |-> rv.domains,
             sizes |-> rv.sizes, queue |-> Tail(q), modified |-> TRUE]
       ELSE [status |-> "ok", xi |-> xi, domains |-> rv.domains, sizes |-> rv.sizes,
             queue |-> Tail(q) \o (IF rv.modified THEN ArcsFromExcept(a, m, xi, xj)
                                                  ELSE <<>>),
             modified |-> rv.modified]

\* verify_counts over a set of cells
verify_counts(a, m, doms, sizes, cells) ==
    [c \in Cells |-> IF c \in cells /\ ~(a = "fast" /\ mask(m)[c])
                     THEN Cardinality(doms[c]) ELSE sizes[c]]

\* initial population of the entropy buckets
InitialBuckets(m, sizes, num_tiles) ==
    [e \in 0 .. num_tiles |-> {c \in Cells : ~mask(m)[c] /\ sizes[c] > 1 /\ sizes[c] = e}]

\* mutant of UpdateBuckets: an affected cell is not taken out of its old bucket
UpdateBucketsNoRemove(buckets, sizes, affected, num_tiles) ==
    [e \in 0 .. num_tiles |->
        buckets[e] \cup {c \in affected : sizes[c] > 1 /\ sizes[c] = e}]

\* mutant of UpdateBuckets: an affected cell is taken out of its bucket and
\* not put into the bucket of its new size
UpdateBucketsNoInsert(buckets, sizes, affected, num_tiles) ==
    [e \in 0 .. num_tiles |-> IF e < 2 THEN buckets[e] ELSE buckets[e] \ affected]

\* update buckets for all affected cells
UpdateBuckets(buckets, sizes, affected, num_tiles) ==
    [e \in 0 .. num_tiles |->
        IF e < 2 THEN buckets[e]
        ELSE (buckets[e] \ affected) \cup {c \in affected : sizes[c] > 1 /\ sizes[c] = e}]

\* (2..=num_tiles).find(|&e| !bucket_sets[e].is_empty())
NonEmptyEntropies(buckets, num_tiles) == {e \in 2 .. num_tiles : buckets[e] # {}}

\* mutant of FinalMap: the input cells are returned as they were
FinalMapKeepsInput(m, doms) == m

\* build the final map
FinalMap(m, doms) ==
    [c \in Cells |-> IF mask(m)[c] THEN m[c] ELSE Fixed(Min(doms[c]))]

NoError == [kind |-> "None", cell |-> <<0, 0>>, phase |-> "none"]
Failure(kind, cell, phase) == [kind |-> kind, cell |-> cell, phase |-> phase]

----------------------------------------------------------------------------
(* Solver: collapse() as a state machine *)

NumRuleTiles == RulesLen(rules)

\* the variables of the round trips, while a solver runs
RulesIdle ==
    /\ adjacency_matrix = <<>>
    /\ freqs = <<>>
    /\ built = <<>>
    /\ saved = <<>>
    /\ reloaded = <<>>
    /\ saved_again = <<>>
    /\ rpc = "idle"

TextIdle ==
    /\ tmap = <<>>
    /\ text = <<>>
    /\ parsed = <<>>
    /\ text_again = <<>>
    /\ tpc = "idle"

RuleSetIdle ==
    /\ rs_rules = <<>>
    /\ rs_outcome = "idle"

BorderIdle ==
    /\ bc_map = <<>>
    /\ bc_direction = "North"
    /\ bc_border_size = 0
    /\ bc_chunk = <<>>
    /\ bc_pc = "idle"

ChunkIdle ==
    /\ chunks = <<>>
    /\ new_map = <<>>
    /\ pass = "idle"
    /\ cy = 0
    /\ cx = 0
    /\ solve_count = <<>>
    /\ chunk_border = 0

SharedIdle ==
    /\ sb_self = <<>>
    /\ sb_other = <<>>
    /\ sb_direction = "North"
    /\ sb_border_size = 0
    /\ sb_result = <<>>
    /\ sb_pc = "idle"

CommonIdle ==
    /\ max_iterations = 0
    /\ total_revisions = 0
    /\ sizes_before = <<>>
    /\ domains_before = <<>>
    /\ backtrack_state = <<>>

BuilderIdle ==
    /\ tb_tiles = <<>>
    /\ tb_frequencies = <<>>
    /\ tb_processed = <<>>
    /\ tb_transformations = <<>>
    /\ tb_calls = 0
    /\ tb_pc = "idle"

ExtraIdle == SharedIdle /\ CommonIdle /\ BuilderIdle

AuxIdle == RuleSetIdle /\ BorderIdle /\ ChunkIdle /\ ExtraIdle

\* Rules::new accepted the atlas; collapse() up to the populated initial queue
SolverInitWith(a, atlas, m) ==
        /\ RulesNewAccepts(atlas.adj, atlas.frequencies)
        /\ algo = a
        /\ map = m
        /\ rules = RulesNew(atlas.adj, atlas.frequencies)
        /\ domains = MapDomains(m, NumTiles(atlas))
        /\ domain_sizes = [c \in DOMAIN m |->
              IF mask(m)[c] THEN 0 ELSE Cardinality(domain(m[c], NumTiles(atlas)))]
        /\ queue = InitialArcs(a, m, 1)
        /\ iteration_count = 0
        /\ bucket_sets = [e \in 0 .. NumTiles(atlas) |-> {}]
        /\ affected_cells = {}
        /\ pc = "init_prop"
        /\ result = m
        /\ error = NoError
        /\ decision_stack = <<>>
        /\ backtrack_attempts = 0
        /\ draws = 0
        /\ last_draw = "none"
        /\ rng_log = <<>>
        /\ replay = "recording"
        /\ first_result = m
        /\ RulesIdle
        /\ TextIdle
        /\ AuxIdle

SolverInit(a) ==
    \E atlas \in Atlases :
      \E m \in Maps(NumTiles(atlas)) : SolverInitWith(a, atlas, m)

Fail(kind, cell, phase) ==
    /\ pc' = "failed"
    /\ error' = Failure(kind, cell, phase)

\* initial propagation, one arc
InitialPropagation(a) ==
    /\ algo = a
    /\ pc = "init_prop"
    /\ queue # <<>>
    /\ LET s == PopAndRevise(a, map, rules, domains, domain_sizes, queue, iteration_count)
       IN /\ domains' = s.domains
          /\ domain_sizes' = s.sizes
          /\ queue' = s.queue
          /\ iteration_count' = iteration_count + 1
          /\ CASE s.status = "limit" -> Fail("IterationLimit", s.xi, "initial")
               [] s.status = "contradiction" -> Fail("Contradiction", s.xi, "initial")
               [] s.status = "ok" -> UNCHANGED <<pc, error>>
    /\ UNCHANGED <<algo, map, rules, bucket_sets, affected_cells, result,
                   decision_stack, backtrack_attempts, draws, last_draw,
                   rng_log, replay, first_result, rulesVars, textVars, auxVars>>

\* the initial queue is drained: verify_counts, then the buckets are populated
InitialPropagationDone(a) ==
    /\ algo = a
    /\ pc = "init_prop"
    /\ queue = <<>>
    /\ LET sizes == verify_counts(a, map, domains, domain_sizes, Cells)
       IN /\ domain_sizes' = sizes
          /\ bucket_sets' = InitialBuckets(map, sizes, NumRuleTiles)
    /\ pc' = "select"
    /\ UNCHANGED <<algo, map, rules, domains, queue, iteration_count, affected_cells,
                   result, error, decision_stack, backtrack_attempts, draws, last_draw,
                   rng_log, replay, first_result, rulesVars, textVars, auxVars>>

\* the tiles the Rng can return for a collapse, and the kind of the draw
DrawKind(a, options) ==
    IF a = "fast" /\ \E t \in options : rules.frequencies[t] = 0
    THEN "uniform" ELSE "weighted"

DrawOutcomes(a, options) ==
    IF DrawKind(a, options) = "uniform" THEN options
    ELSE {t \in options : rules.frequencies[t] > 0}

\* one Rng draw: any outcome in a first run; in a second run the outcome the
\* first run received for the same draw, while the draws asked are the same
RngDraw(kind, outcomes, choice) ==
    /\ draws' = draws + 1
    /\ last_draw' = kind
    /\ CASE replay = "recording" ->
              /\ rng_log' = Append(rng_log, [kind |-> kind, options |-> outcomes,
                                             choice |-> choice])
              /\ UNCHANGED replay
         [] /\ replay = "replaying"
            /\ draws < Len(rng_log)
            /\ rng_log[draws + 1].kind = kind
            /\ rng_log[draws + 1].options = outcomes ->
              /\ choice = rng_log[draws + 1].choice
              /\ UNCHANGED <<rng_log, replay>>
         [] OTHER ->
              /\ replay' = "diverged"
              /\ UNCHANGED rng_log

\* one iteration of the collapse loop up to the seeded propagation queue
Collapse(a) ==
    /\ algo = a
    /\ pc = "select"
    /\ NonEmptyEntropies(bucket_sets, NumRuleTiles) # {}
    /\ LET entropy == Min(NonEmptyEntropies(bucket_sets, NumRuleTiles))
       IN \E best_idx \in bucket_sets[entropy] :
            LET removed == [bucket_sets EXCEPT ![entropy] = @ \ {best_idx}]
                actual_count == Cardinality(domains[best_idx])
                synced == [domain_sizes EXCEPT ![best_idx] = actual_count]
            IN IF actual_count # domain_sizes[best_idx] /\ actual_count # entropy
               THEN /\ domain_sizes' = synced
                    /\ bucket_sets' = IF actual_count > 1
                                      THEN [removed EXCEPT ![actual_count] = @ \cup {best_idx}]
                                      ELSE removed
                    /\ UNCHANGED <<domains, queue, iteration_count, affected_cells, pc,
                                   error, decision_stack, draws, last_draw, rng_log, replay>>
               ELSE IF domains[best_idx] = {}
               THEN /\ domain_sizes' = synced
                    /\ bucket_sets' = removed
                    /\ Fail("NoOptions", best_idx, "collapse")
                    /\ UNCHANGED <<domains, queue, iteration_count, affected_cells,
                                   decision_stack, draws, last_draw, rng_log, replay>>
               ELSE \E choice \in DrawOutcomes(a, domains[best_idx]) :
                    /\ RngDraw(DrawKind(a, domains[best_idx]),
                               DrawOutcomes(a, domains[best_idx]), choice)
                    /\ bucket_sets' = removed
                    /\ decision_stack' =
                         IF a = "bt"
                         THEN Append(decision_stack,
                                [cell_idx |-> best_idx, choice |-> choice,
                                 tried_options |-> {choice}, domains |-> domains,
                                 counts |-> synced, bucket_sets |-> removed])
                         ELSE decision_stack
                    /\ domains' = [domains EXCEPT ![best_idx] = {choice}]
                    /\ domain_sizes' = [domain_sizes EXCEPT ![best_idx] = 1]
                    /\ queue' = ArcsFrom(a, map, best_idx)
                    /\ affected_cells' = {}
                    /\ iteration_count' = 0
                    /\ pc' = "propagate"
                    /\ UNCHANGED error
    /\ UNCHANGED <<algo, map, rules, result, backtrack_attempts, first_result,
                   rulesVars, textVars, auxVars>>

\* propagation after a collapse, one arc
Propagate(a) ==
    /\ algo = a
    /\ pc = "propagate"
    /\ queue # <<>>
    /\ LET s == PopAndRevise(a, map, rules, domains, domain_sizes, queue, iteration_count)
       IN /\ domains' = s.domains
          /\ domain_sizes' = s.sizes
          /\ queue' = s.queue
          /\ iteration_count' = iteration_count + 1
          /\ affected_cells' = IF s.status = "ok" /\ s.modified
                               THEN affected_cells \cup {s.xi} ELSE affected_cells
          /\ CASE s.status = "limit" ->
                    Fail("IterationLimit", s.xi, "collapse") /\ UNCHANGED backtrack_attempts
               [] s.status = "contradiction" /\ a # "bt" ->
                    Fail("Contradiction", s.xi, "collapse") /\ UNCHANGED backtrack_attempts
               [] s.status = "contradiction" /\ a = "bt" ->
                    /\ backtrack_attempts' = backtrack_attempts + 1
                    /\ IF backtrack_attempts + 1 > MAX_BACKTRACK_ATTEMPTS
                       THEN Fail("BacktrackExhausted", s.xi, "attempts")
                       ELSE pc' = "backtrack" /\ UNCHANGED error
               [] s.status = "ok" -> UNCHANGED <<pc, error, backtrack_attempts>>
    /\ UNCHANGED <<algo, map, rules, bucket_sets, result, decision_stack, draws, last_draw,
                   rng_log, replay, first_result, rulesVars, textVars, auxVars>>

\* the queue is drained after a collapse: the buckets of the affected cells
PropagateDone(a) ==
    /\ algo = a
    /\ pc = "propagate"
    /\ queue = <<>>
    /\ LET sizes == IF a = "fast"
                    THEN verify_counts(a, map, domains, domain_sizes, affected_cells)
                    ELSE domain_sizes
       IN /\ domain_sizes' = sizes
          /\ bucket_sets' = UpdateBuckets(bucket_sets, sizes, affected_cells, NumRuleTiles)
    /\ pc' = "select"
    /\ UNCHANGED <<algo, map, rules, domains, queue, iteration_count, affected_cells,
                   result, error, decision_stack, backtrack_attempts, draws, last_draw,
                   rng_log, replay, first_result, rulesVars, textVars, auxVars>>

\* all buckets are empty: the final map is built
Emit(a) ==
    /\ algo = a
    /\ pc = "select"
    /\ NonEmptyEntropies(bucket_sets, NumRuleTiles) = {}
    /\ domain_sizes' = IF a = "fast" THEN domain_sizes
                       ELSE verify_counts(a, map, domains, domain_sizes, Cells)
    /\ LET empty == {k \in 1 .. Cardinality(Cells) :
                        ~mask(map)[CellSeq[k]] /\ domains[CellSeq[k]] = {}}
       IN IF empty # {}
          THEN Fail("NoPossibilities", CellSeq[Min(empty)], "emit") /\ UNCHANGED result
          ELSE /\ result' = FinalMap(map, domains)
               /\ pc' = "done"
               /\ UNCHANGED error
    /\ UNCHANGED <<algo, map, rules, domains, queue, iteration_count, bucket_sets,
                   affected_cells, decision_stack, backtrack_attempts, draws, last_draw,
                   rng_log, replay, first_result, rulesVars, textVars, auxVars>>

----------------------------------------------------------------------------
(* Backtracking: time limit and the backtrack loop *)

\* the wall-clock check at the head of the main loop
BtTimeout ==
    /\ algo = "bt"
    /\ pc = "select"
    /\ NonEmptyEntropies(bucket_sets, NumRuleTiles) # {}
    /\ Fail("Timeout", <<0, 0>>, "collapse")
    /\ UNCHANGED <<algo, map, rules, domains, domain_sizes, queue, iteration_count,
                   bucket_sets, affected_cells, result, decision_stack,
                   backtrack_attempts, draws, last_draw,
                   rng_log, replay, first_result, rulesVars, textVars, auxVars>>

\* mutant of RetriedFrame: the retried tile is not marked as tried
RetriedFrameNoMark(last_decision, new_choice) ==
    [last_decision EXCEPT !.choice = new_choice]

\* the popped decision point as it is pushed back: new_choice is added to
\* tried_options and becomes the choice
RetriedFrame(last_decision, new_choice) ==
    [last_decision EXCEPT !.tried_options = @ \cup {new_choice},
                          !.choice = new_choice]

\* mutant of Restore: the new choice is applied to the state the failed
\* propagation left
RestoreNothing(last_decision, new_choice) ==
    [domains |-> [domains EXCEPT ![last_decision.cell_idx] = {new_choice}],
     counts |-> [domain_sizes EXCEPT ![last_decision.cell_idx] = 1],
     bucket_sets |-> bucket_sets]

\* mutant of Restore: the domains are restored and the counts and the buckets
\* are left as the failed propagation made them
RestoreDomainsOnly(last_decision, new_choice) ==
    [domains |-> [last_decision.domains EXCEPT ![last_decision.cell_idx] = {new_choice}],
     counts |-> [domain_sizes EXCEPT ![last_decision.cell_idx] = 1],
     bucket_sets |-> bucket_sets]

\* restore state from the decision point, then apply the new choice
Restore(last_decision, new_choice) ==
    [domains |-> [last_decision.domains EXCEPT ![last_decision.cell_idx] = {new_choice}],
     counts |-> [last_decision.counts EXCEPT ![last_decision.cell_idx] = 1],
     bucket_sets |-> last_decision.bucket_sets]

\* one iteration of the 'backtrack loop up to the seeded propagation queue
Backtrack ==
    /\ algo = "bt"
    /\ pc = "backtrack"
    /\ IF decision_stack = <<>>
       THEN /\ Fail("BacktrackExhausted", <<0, 0>>, "exhausted")
            /\ UNCHANGED <<domains, domain_sizes, queue, iteration_count, bucket_sets,
                           affected_cells, decision_stack, draws, last_draw, rng_log, replay>>
       ELSE LET last_decision == decision_stack[Len(decision_stack)]
                popped == SubSeq(decision_stack, 1, Len(decision_stack) - 1)
                cell_idx == last_decision.cell_idx
                untried_options ==
                    last_decision.domains[cell_idx] \ last_decision.tried_options
            IN IF untried_options = {}
               THEN /\ decision_stack' = popped
                    /\ UNCHANGED <<domains, domain_sizes, queue, iteration_count,
                                   bucket_sets, affected_cells, pc, error, draws,
                                   last_draw, rng_log, replay>>
               ELSE \E new_choice \in untried_options :
                    /\ RngDraw("uniform", untried_options, new_choice)
                    /\ domains' = Restore(last_decision, new_choice).domains
                    /\ domain_sizes' = Restore(last_decision, new_choice).counts
                    /\ bucket_sets' = Restore(last_decision, new_choice).bucket_sets
                    /\ decision_stack' =
                         Append(popped, RetriedFrame(last_decision, new_choice))
                    /\ queue' = ArcsFrom("bt", map, cell_idx)
                    /\ affected_cells' = {}
                    /\ iteration_count' = 0
                    /\ pc' = "bt_propagate"
                    /\ UNCHANGED error
    /\ UNCHANGED <<algo, map, rules, result, backtrack_attempts, first_result,
                   rulesVars, textVars, auxVars>>

\* propagation of a retried choice, one arc
BtRetryPropagate ==
    /\ algo = "bt"
    /\ pc = "bt_propagate"
    /\ queue # <<>>
    /\ LET s == PopAndRevise("bt", map, rules, domains, domain_sizes, queue,
                             iteration_count)
       IN /\ domains' = s.domains
          /\ domain_sizes' = s.sizes
          /\ queue' = s.queue
          /\ iteration_count' = iteration_count + 1
          /\ affected_cells' = IF s.status = "ok" /\ s.modified
                               THEN affected_cells \cup {s.xi} ELSE affected_cells
          /\ CASE s.status = "limit" -> Fail("IterationLimit", s.xi, "backtrack")
               [] s.status = "contradiction" -> pc' = "backtrack" /\ UNCHANGED error
               [] s.status = "ok" -> UNCHANGED <<pc, error>>
    /\ UNCHANGED <<algo, map, rules, bucket_sets, result, decision_stack,
                   backtrack_attempts, draws, last_draw,
                   rng_log, replay, first_result, rulesVars, textVars, auxVars>>

\* the retried choice propagated without contradiction
BtRetryDone ==
    /\ algo = "bt"
    /\ pc = "bt_propagate"
    /\ queue = <<>>
    /\ bucket_sets' = UpdateBuckets(bucket_sets, domain_sizes, affected_cells, NumRuleTiles)
    /\ pc' = "select"
    /\ UNCHANGED <<algo, map, rules, domains, domain_sizes, queue, iteration_count,
                   affected_cells, result, error, decision_stack, backtrack_attempts,
                   draws, last_draw,
                   rng_log, replay, first_result, rulesVars, textVars, auxVars>>

----------------------------------------------------------------------------
(* The three solvers *)

FastInitialPropagation == InitialPropagation("fast")
FastInitialPropagationDone == InitialPropagationDone("fast")
FastCollapse == Collapse("fast")
FastPropagate == Propagate("fast")
FastPropagateDone == PropagateDone("fast")
FastEmit == Emit("fast")

OptInitialPropagation == InitialPropagation("opt")
OptInitialPropagationDone == InitialPropagationDone("opt")
OptCollapse == Collapse("opt")
OptPropagate == Propagate("opt")
OptPropagateDone == PropagateDone("opt")
OptEmit == Emit("opt")

BtInitialPropagation == InitialPropagation("bt")
BtInitialPropagationDone == InitialPropagationDone("bt")
BtCollapse == Collapse("bt")
BtPropagate == Propagate("bt")
BtPropagateDone == PropagateDone("bt")
BtEmit == Emit("bt")

NextFast ==
    \/ FastInitialPropagation
    \/ FastInitialPropagationDone
    \/ FastCollapse
    \/ FastPropagate
    \/ FastPropagateDone
    \/ FastEmit

NextOpt ==
    \/ OptInitialPropagation
    \/ OptInitialPropagationDone
    \/ OptCollapse
    \/ OptPropagate
    \/ OptPropagateDone
    \/ OptEmit

NextBt ==
    \/ BtInitialPropagation
    \/ BtInitialPropagationDone
    \/ BtCollapse
    \/ BtPropagate
    \/ BtPropagateDone
    \/ BtEmit
    \/ BtTimeout
    \/ Backtrack
    \/ BtRetryPropagate
    \/ BtRetryDone

Init == \E a \in {"fast", "opt", "bt"} : SolverInit(a)
Next == NextFast \/ NextOpt \/ NextBt
Spec == Init /\ [][Next]_vars

----------------------------------------------------------------------------
(* Rules round trip: Rules::new, adjacency_matrix(), Rules::new again, as    *)
(* TilesetBuilder::build, Tileset::save and Tileset::from_str chain them     *)

SolverIdle ==
    /\ algo = "none"
    /\ map = <<>>
    /\ rules = <<>>
    /\ domains = <<>>
    /\ domain_sizes = <<>>
    /\ queue = <<>>
    /\ iteration_count = 0
    /\ bucket_sets = <<>>
    /\ affected_cells = {}
    /\ pc = "idle"
    /\ result = <<>>
    /\ error = NoError
    /\ decision_stack = <<>>
    /\ backtrack_attempts = 0
    /\ draws = 0
    /\ last_draw = "none"
    /\ rng_log = <<>>
    /\ replay = "recording"
    /\ first_result = <<>>

\* the frequency vectors tried for n tiles: all positive, or with a zero
FrequencyChoices(n) == {[t \in 0 .. n - 1 |-> t + 1], [t \in 0 .. n - 1 |-> t]}

InitRules ==
    /\ \E n \in 1 .. MaxRuleTiles :
         /\ adjacency_matrix \in [(0 .. n - 1) \X (0 .. n - 1) \X (0 .. 1) -> BOOLEAN]
         /\ freqs \in FrequencyChoices(n)
    /\ built = <<>>
    /\ saved = <<>>
    /\ reloaded = <<>>
    /\ saved_again = <<>>
    /\ rpc = "start"
    /\ SolverIdle
    /\ TextIdle
    /\ AuxIdle

\* TilesetBuilder::build: Rules::new(adjacency_matrix, frequencies)
RulesBuild ==
    /\ rpc = "start"
    /\ IF RulesNewAccepts(adjacency_matrix, freqs)
       THEN built' = RulesNew(adjacency_matrix, freqs) /\ rpc' = "built"
       ELSE rpc' = "panicked" /\ UNCHANGED built
    /\ UNCHANGED <<adjacency_matrix, freqs, saved, reloaded, saved_again,
                   solverVars, textVars, auxVars>>

\* Tileset::save: the manifest rows are read off rules.adjacency_matrix()
RulesSave ==
    /\ rpc = "built"
    /\ saved' = AdjacencyMatrix(built)
    /\ rpc' = "saved"
    /\ UNCHANGED <<adjacency_matrix, freqs, built, reloaded, saved_again,
                   solverVars, textVars, auxVars>>

\* Tileset::from_str: the matrix parsed from the manifest goes to Rules::new
RulesLoad ==
    /\ rpc = "saved"
    /\ reloaded' = RulesNew(saved, freqs)
    /\ rpc' = "reloaded"
    /\ UNCHANGED <<adjacency_matrix, freqs, built, saved, saved_again,
                   solverVars, textVars, auxVars>>

\* Tileset::save of the loaded tileset
RulesSaveAgain ==
    /\ rpc = "reloaded"
    /\ saved_again' = AdjacencyMatrix(reloaded)
    /\ rpc' = "saved_again"
    /\ UNCHANGED <<adjacency_matrix, freqs, built, saved, reloaded,
                   solverVars, textVars, auxVars>>

NextRules == RulesBuild \/ RulesSave \/ RulesLoad \/ RulesSaveAgain
SpecRules == InitRules /\ [][NextRules]_vars

\* C4: for every Rules value built by Rules::new from any n x n x 2 matrix,
\* u is in mask[t][d] exactly when t is in mask[u][opposite(d)].
C4_MasksSymmetric ==
    (rpc \in {"built", "saved", "reloaded", "saved_again"}) =>
        \A t \in DOMAIN built.masks : \A u \in DOMAIN built.masks : \A d \in Direction :
            (u \in built.masks[t][d]) <=> (t \in built.masks[u][opposite(d)])

\* Rules built from a matrix whose East and North slices are both asymmetric
C4_Witness ==
    /\ rpc = "built"
    /\ \E i \in DOMAIN freqs : \E j \in DOMAIN freqs :
         /\ adjacency_matrix[i, j, 0] /\ ~adjacency_matrix[j, i, 0]
         /\ adjacency_matrix[j, i, 1] /\ ~adjacency_matrix[i, j, 1]

\* C8: serialising Rules with adjacency_matrix() and rebuilding with Rules::new
\* gives the same mask[t][d] for every tile and direction, and a second save
\* writes the same matrix as the first.
C8_RulesRoundTrip ==
    /\ (rpc \in {"reloaded", "saved_again"}) => (reloaded.masks = built.masks)
    /\ (rpc = "saved_again") => (saved_again = saved)

----------------------------------------------------------------------------
(* Map text round trip: Display for Map, Map::from_str.  A text is a         *)
(* sequence of characters; a map is a sequence of rows of cells.             *)

DigitChars == <<"0", "1", "2", "3", "4", "5", "6", "7", "8", "9">>
Whitespace == {" ", "\t", "\n", "\r"}

RECURSIVE to_string_reversed(_)
\* mutant of to_string: the digits come out least significant first
to_string_reversed(n) ==
    IF n < 10 THEN <<DigitChars[n + 1]>>
    ELSE <<DigitChars[(n % 10) + 1]>> \o to_string_reversed(n \div 10)

RECURSIVE to_string(_)
\* usize Display: decimal digits, most significant first
to_string(n) ==
    IF n < 10 THEN <<DigitChars[n + 1]>>
    ELSE to_string(n \div 10) \o <<DigitChars[(n % 10) + 1]>>

\* impl Display for Cell
CellDisplay(cell) ==
    CASE cell.tag = "Ignore"   -> <<"!">>
      [] cell.tag = "Wildcard" -> <<"*">>
      [] cell.tag = "Fixed"    -> to_string(cell.index)

\* Map::max_index, with unwrap_or(0) applied
MaxIndexOrZero(m) ==
    LET fixed == {m[y][x].index : <<y, x>> \in
                    {p \in (1 .. Len(m)) \X (1 .. Len(m[1])) : m[p[1]][p[2]].tag = "Fixed"}}
    IN IF fixed = {} THEN 0 ELSE CHOOSE i \in fixed : \A j \in fixed : j <= i

\* {s:>print_width$}: right-aligned in print_width columns
PadLeft(str, print_width) ==
    [k \in 1 .. (IF print_width > Len(str) THEN print_width - Len(str) ELSE 0) |-> " "]
        \o str

RECURSIVE Concat(_)
Concat(seqs) == IF seqs = <<>> THEN <<>> ELSE Head(seqs) \o Concat(Tail(seqs))

\* impl Display for Map
MapDisplay(m) ==
    LET print_width == Len(to_string(MaxIndexOrZero(m)))
        row(y) == Concat([x \in 1 .. Len(m[y]) |->
                            PadLeft(CellDisplay(m[y][x]), print_width) \o <<" ">>])
                  \o <<"\n">>
    IN Concat([y \in 1 .. Len(m) |-> row(y)])

RECURSIVE SplitAll(_, _)
\* the pieces of t between occurrences of sep
SplitAll(t, sep) ==
    LET hits == {i \in 1 .. Len(t) : t[i] = sep}
    IN IF hits = {} THEN <<t>>
       ELSE LET i == Min(hits)
            IN <<SubSeq(t, 1, i - 1)>> \o SplitAll(SubSeq(t, i + 1, Len(t)), sep)

\* str::lines: split at "\n", a trailing empty line is not produced
Lines(t) ==
    LET pieces == SplitAll(t, "\n")
    IN IF pieces[Len(pieces)] = <<>> THEN SubSeq(pieces, 1, Len(pieces) - 1) ELSE pieces

\* str::trim
Trim(l) ==
    LET keep == {i \in 1 .. Len(l) : l[i] \notin Whitespace}
    IN IF keep = {} THEN <<>>
       ELSE SubSeq(l, Min(keep), CHOOSE i \in keep : \A j \in keep : j <= i)

RECURSIVE SplitWhitespace(_)
\* str::split_whitespace: the maximal runs of non-whitespace characters
SplitWhitespace(l) ==
    LET keep == {i \in 1 .. Len(l) : l[i] \notin Whitespace}
    IN IF keep = {} THEN <<>>
       ELSE LET first == Min(keep)
                stops == {i \in first .. Len(l) : l[i] \in Whitespace}
                last == IF stops = {} THEN Len(l) ELSE Min(stops) - 1
            IN <<SubSeq(l, first, last)>> \o SplitWhitespace(SubSeq(l, last + 1, Len(l)))

RECURSIVE ParseDigits(_, _)
\* the value of a string of decimal digits, acc the value read so far
ParseDigits(str, acc) ==
    IF str = <<>> THEN acc
    ELSE ParseDigits(Tail(str),
                     10 * acc + ((CHOOSE k \in 1 .. 10 : DigitChars[k] = Head(str)) - 1))

\* s.parse::<usize>() succeeds
IsUsize(str) ==
    /\ str # <<>>
    /\ \A i \in 1 .. Len(str) : \E k \in 1 .. 10 : DigitChars[k] = str[i]

InvalidCell == [tag |-> "Invalid", index |-> 0]

\* impl From<&str> for Cell (Invalid stands for the panic)
CellFromStr(str) ==
    IF str = <<"!">> THEN Ignore
    ELSE IF str = <<"*">> THEN Wildcard
    ELSE IF IsUsize(str) THEN Fixed(ParseDigits(str, 0))
    ELSE InvalidCell

\* Map::from_str; ok is FALSE where the code panics
FromStr(t) ==
    LET trimmed == [k \in 1 .. Len(Lines(t)) |-> Trim(Lines(t)[k])]
        kept == SelectSeq(trimmed, LAMBDA l : l # <<>> /\ Head(l) # "#")
        cells == [y \in 1 .. Len(kept) |->
                    LET toks == SplitWhitespace(kept[y])
                    IN [x \in 1 .. Len(toks) |-> CellFromStr(toks[x])]]
    IN [ok |-> /\ Len(cells) > 0
               /\ Len(cells[1]) > 0
               /\ \A y \in 1 .. Len(cells) :
                    /\ Len(cells[y]) = Len(cells[1])
                    /\ \A x \in 1 .. Len(cells[y]) : cells[y][x] # InvalidCell,
        cells |-> cells]

\* the tile indices written: one, two and three digits
TextIndices == {0, 7, 10, 42, 123}

TextSpecial == {Ignore} \cup {Fixed(i) : i \in TextIndices}

\* maps of every size up to Height x Width with at most MaxSeeds cells that
\* are not Wildcard
TextMaps ==
    UNION { UNION { { [y \in 1 .. h |-> [x \in 1 .. w |->
                        IF <<y, x>> \in S THEN f[<<y, x>>] ELSE Wildcard]] :
                      f \in [S -> TextSpecial] } :
                    S \in {T \in SUBSET ((1 .. h) \X (1 .. w)) : Cardinality(T) <= MaxSeeds} } :
            <<h, w>> \in (1 .. Height) \X (1 .. Width) }

InitText ==
    /\ tmap \in TextMaps
    /\ text = <<>>
    /\ parsed = <<>>
    /\ text_again = <<>>
    /\ tpc = "start"
    /\ SolverIdle
    /\ RulesIdle
    /\ AuxIdle

\* Map::save: the text written for the map
MapSave ==
    /\ tpc = "start"
    /\ text' = MapDisplay(tmap)
    /\ tpc' = "saved"
    /\ UNCHANGED <<tmap, parsed, text_again, solverVars, rulesVars, auxVars>>

\* Map::load: Map::from_str of the text
MapLoad ==
    /\ tpc = "saved"
    /\ parsed' = FromStr(text)
    /\ tpc' = "loaded"
    /\ UNCHANGED <<tmap, text, text_again, solverVars, rulesVars, auxVars>>

\* Map::save of the parsed map
MapSaveAgain ==
    /\ tpc = "loaded"
    /\ parsed.ok
    /\ text_again' = MapDisplay(parsed.cells)
    /\ tpc' = "saved_again"
    /\ UNCHANGED <<tmap, text, parsed, solverVars, rulesVars, auxVars>>

NextText == MapSave \/ MapLoad \/ MapSaveAgain
SpecText == InitText /\ [][NextText]_vars

\* C9: for every map, parsing the text written for it gives the same map
\* cell for cell, and writing the parsed map gives the identical text.
C9_MapTextRoundTrip ==
    /\ (tpc \in {"loaded", "saved_again"}) => (parsed.ok /\ parsed.cells = tmap)
    /\ (tpc = "loaded") => parsed.ok
    /\ (tpc = "saved_again") => (text_again = text)

\* a 2-row map with a padded one-digit index, a three-digit index and an
\* Ignore cell went through write, parse, write
C9_Witness ==
    /\ tpc = "saved_again"
    /\ Len(tmap) >= 2
    /\ \E y \in 1 .. Len(tmap) : \E x \in 1 .. Len(tmap[y]) : tmap[y][x] = Fixed(123)
    /\ \E y \in 1 .. Len(tmap) : \E x \in 1 .. Len(tmap[y]) : tmap[y][x] \in {Ignore, Fixed(7)}

----------------------------------------------------------------------------
(* Properties of the emitted map *)

Participating == {c \in Cells : ~mask(map)[c]}

\* every participating cell of res is Fixed
AllFixed(res) == \A c \in Participating : res[c].tag = "Fixed"

\* every pair of adjacent participating cells (c, b), b in direction d from c
\* in the geometry of solver a, satisfies tile(b) \in mask[tile(c)][d]
AdjacencyValid(a, res) ==
    \A c \in Participating : \A d \in Direction :
        LET b == Step(a, c, d)
        IN (b \in Participating) =>
              res[b].index \in rules.masks[res[c].index][d]


\* C1: whenever the fast solver returns Ok, for any input map (several Fixed
\* seeds included), every participating cell is Fixed and every pair of
\* adjacent participating cells satisfies the adjacency masks.
C1_FastOkIsConsistent ==
    (algo = "fast" /\ pc = "done") => (AllFixed(result) /\ AdjacencyValid("fast", result))

C3_EmitFromSingletons ==
    /\ (pc = "select" /\ NonEmptyEntropies(bucket_sets, NumRuleTiles) = {}) =>
            \A c \in Participating : Cardinality(domains[c]) = 1
    /\ (pc = "done") =>
            \A c \in Participating :
                Cardinality(domains[c]) = 1 /\ \E i \in domains[c] : result[c] = Fixed(i)
    /\ error.kind # "NoPossibilities"

\* a map emitted after at least one collapse whose propagation shrank a cell
C3_Witness ==
    algo \in {"fast", "opt"} /\ pc = "done" /\ draws > 0 /\ affected_cells # {}

\* C5: after every revise call, collapse commit and backtrack restore the
\* cached size of every participating cell is the number of tiles of its domain.
C5_SizeIsPopcount ==
    \A c \in Participating : domain_sizes[c] = Cardinality(domains[c])

\* a revision shrank a cell after a backtrack restore
C5_Witness ==
    /\ pc = "bt_propagate"
    /\ affected_cells # {}
    /\ backtrack_attempts > 0

\* C6: at the start of every iteration of the collapse loop a participating
\* cell of size > 1 is in buckets[size] and in no other bucket, and a cell of
\* size 1 is in no bucket.
C6_BucketInvariant ==
    (pc = "select") =>
        \A c \in Participating : \A e \in 0 .. NumRuleTiles :
            (c \in bucket_sets[e]) <=> (domain_sizes[c] > 1 /\ e = domain_sizes[c])

\* a loop head after a propagation that moved a cell to a smaller bucket while
\* another cell is collapsed
C6_Witness ==
    /\ pc = "select"
    /\ draws > 0
    /\ \E c \in affected_cells : domain_sizes[c] > 1
    /\ \E c \in Participating : domain_sizes[c] = 1

\* the unsatisfiable seeds of C10: checkerboard rules, (0,0) and (0,1) both A
UnsatSeeds ==
    /\ rules = RulesNew(CheckerAtlas.adj, CheckerAtlas.frequencies)
    /\ map[<<0, 0>>] = Fixed(0)
    /\ map[<<0, 1>>] = Fixed(0)

\* C10: on the unsatisfiable checkerboard seeds the fast solver never returns
\* Ok; it fails during initial propagation with the contradiction at (0,1).
C10_FastRejectsUnsatSeeds ==
    (algo = "fast" /\ UnsatSeeds) =>
        /\ pc # "done"
        /\ (pc = "failed" => error = Failure("Contradiction", <<0, 1>>, "initial"))

----------------------------------------------------------------------------
(* Two runs of collapse on the same map and rules, the second receiving the  *)
(* Rng outcomes of the first                                                 *)

\* the first run returned a map: collapse is called again on the same inputs
SecondRun ==
    /\ replay = "recording"
    /\ pc = "done"
    /\ first_result' = result
    /\ replay' = "replaying"
    /\ domains' = MapDomains(map, NumRuleTiles)
    /\ domain_sizes' = [c \in Cells |->
          IF mask(map)[c] THEN 0 ELSE Cardinality(domain(map[c], NumRuleTiles))]
    /\ queue' = InitialArcs(algo, map, 1)
    /\ iteration_count' = 0
    /\ bucket_sets' = [e \in 0 .. NumRuleTiles |-> {}]
    /\ affected_cells' = {}
    /\ pc' = "init_prop"
    /\ result' = map
    /\ error' = NoError
    /\ decision_stack' = <<>>
    /\ backtrack_attempts' = 0
    /\ draws' = 0
    /\ last_draw' = "none"
    /\ UNCHANGED <<algo, map, rules, rng_log, rulesVars, textVars, auxVars>>

InitTwoRuns == \E a \in {"fast", "bt"} : SolverInit(a)
NextTwoRuns == NextFast \/ NextBt \/ SecondRun
SpecTwoRuns == InitTwoRuns /\ [][NextTwoRuns]_vars

\* C7: two runs of a solver on the same map and rules that receive the same
\* sequence of Rng outcomes return the same map.
C7_SameRngSameMap ==
    (replay = "replaying" /\ pc = "done" /\ draws = Len(rng_log)) =>
        result = first_result

----------------------------------------------------------------------------
(* Unsatisfiable and forced inputs *)

ParityMap(first) == [c \in Cells |-> Fixed((c[1] + c[2] + first) % 2)]

\* checkerboard rules and a map whose only seed is (0,0) = A
ForcedSeed ==
    /\ rules = RulesNew(CheckerAtlas.adj, CheckerAtlas.frequencies)
    /\ map = [c \in Cells |-> IF c = <<0, 0>> THEN Fixed(0) ELSE Wildcard]

\* C12: with checkerboard rules and the single seed (0,0) = A, initial
\* propagation alone leaves every cell a singleton (A on even y+x, B on odd),
\* the solver emits exactly that map and makes no Rng draw.
C12_ForcedCheckerboard ==
    ForcedSeed =>
        /\ draws = 0
        /\ pc \in {"init_prop", "select", "done"}
        /\ (pc \in {"select", "done"} =>
                \A c \in Cells : domains[c] = {(c[1] + c[2]) % 2})
        /\ (pc = "done" => result = ParityMap(0))

\* the forced checkerboard was emitted by the fast or the optimised solver
C12_Witness ==
    ForcedSeed /\ pc = "done" /\ algo \in {"fast", "opt"} /\ result = ParityMap(0)

\* checkerboard rules (frequencies 1, 1) and an all-Wildcard map
AllWildcardChecker ==
    /\ rules = RulesNew(CheckerAtlas.adj, CheckerAtlas.frequencies)
    /\ map = [c \in Cells |-> Wildcard]

\* C13: with checkerboard rules and an all-Wildcard map, for every Rng outcome
\* and every choice of cell within a bucket no contradiction occurs (no
\* failure of the fast or optimised solver, no backtrack, and no failure of the
\* backtracking solver other than its wall-clock limit), one draw is made at
\* most, and a returned map is one of the two parity colourings.
C13_CheckerboardTwoSolutions ==
    AllWildcardChecker =>
        /\ backtrack_attempts = 0
        /\ pc \notin {"backtrack", "bt_propagate"}
        /\ (pc = "failed" => (algo = "bt" /\ error.kind = "Timeout"))
        /\ draws <= 1
        /\ (pc = "done" => (draws = 1 /\ result \in {ParityMap(0), ParityMap(1)}))

\* the colouring with B at (0,0) was returned after one draw
C13_Witness ==
    AllWildcardChecker /\ pc = "done" /\ draws = 1 /\ result = ParityMap(1)

\* rules of a single self-adjacent tile and an all-Wildcard map
SingleTileAllWildcard ==
    /\ rules = RulesNew(SingleAtlas.adj, SingleAtlas.frequencies)
    /\ map = [c \in Cells |-> Wildcard]

\* C14: with a single tile adjacent to itself in all four directions, an
\* all-Wildcard map collapses to Fixed(0) everywhere with no failure, no Rng
\* draw, zero backtrack attempts and an empty decision stack.
C14_SingleTile ==
    SingleTileAllWildcard =>
        /\ pc \in {"init_prop", "select", "done"}
        /\ draws = 0
        /\ backtrack_attempts = 0
        /\ decision_stack = <<>>
        /\ (pc = "done" => result = [c \in Cells |-> Fixed(0)])

\* the backtracking solver returned the single-tile map
C14_Witness ==
    SingleTileAllWildcard /\ algo = "bt" /\ pc = "done"

----------------------------------------------------------------------------
(* Ignore cells *)

\* the failures that report a cell
CellFailures == {"Contradiction", "NoOptions", "NoPossibilities"}

\* C15: for any input map no arc on the propagation queue has an Ignore cell
\* as its target or its source, no contradiction is reported at an Ignore
\* cell, and on success the Ignore cells of the output are exactly the Ignore
\* cells of the input.
C15_IgnoreCellsUntouched ==
    /\ \A k \in 1 .. Len(queue) :
          ~mask(map)[queue[k][1]] /\ ~mask(map)[queue[k][2]]
    /\ (pc = "failed" /\ error.kind \in CellFailures) => ~mask(map)[error.cell]
    /\ (pc = "done") => \A c \in Cells : (map[c] = Ignore) <=> (result[c] = Ignore)

\* a map with an Ignore cell was returned after a collapse and a propagation
\* that shrank a neighbour
C15_Witness ==
    /\ pc = "done"
    /\ draws > 0
    /\ affected_cells # {}
    /\ \E c \in Cells : map[c] = Ignore

----------------------------------------------------------------------------
(* RuleSet::new: construction from per-tile lists of allowed neighbours *)

\* struct Rule: the tiles allowed to the north, east, south and west
Rule(north, east, south, west) ==
    [north |-> north, east |-> east, south |-> south, west |-> west]

\* the list of a rule for one direction
RuleSide(rule, d) ==
    CASE d = "North" -> rule.north
      [] d = "East"  -> rule.east
      [] d = "South" -> rule.south
      [] d = "West"  -> rule.west

\* the tile indices written in the lists: the tiles, and for the smallest set
\* one index past the end
RuleIndices(n) == IF n < MaxRuleTiles THEN 0 .. n ELSE 0 .. n - 1

\* the Vec<Rule> values given to RuleSet::new
RuleVectors ==
    UNION { [0 .. n - 1 ->
                { Rule(no, ea, so, we) :
                    no \in SUBSET RuleIndices(n), ea \in SUBSET RuleIndices(n),
                    so \in SUBSET RuleIndices(n), we \in SUBSET RuleIndices(n) }] :
            n \in 1 .. MaxRuleTiles }

\* the first assertion of RuleSet::new: every listed tile is < num_tiles
RuleIndicesValid(rs) ==
    \A i \in DOMAIN rs : \A d \in Direction : RuleSide(rs[i], d) \subseteq DOMAIN rs

\* mutant of RuleSetNewAccepts: only the north and east lists are checked
RuleSetNewChecksHalf(rs) ==
    /\ RuleIndicesValid(rs)
    /\ \A i \in DOMAIN rs :
          /\ \A j \in rs[i].north : i \in rs[j].south
          /\ \A j \in rs[i].east : i \in rs[j].west

\* the assertions of RuleSet::new
RuleSetNewAccepts(rs) ==
    /\ RuleIndicesValid(rs)
    /\ \A i \in DOMAIN rs :
          /\ \A j \in rs[i].north : i \in rs[j].south
          /\ \A j \in rs[i].east : i \in rs[j].west
          /\ \A j \in rs[i].south : i \in rs[j].north
          /\ \A j \in rs[i].west : i \in rs[j].east

InitRuleSet ==
    /\ rs_rules \in RuleVectors
    /\ rs_outcome = "start"
    /\ SolverIdle
    /\ RulesIdle
    /\ TextIdle
    /\ BorderIdle
    /\ ChunkIdle
    /\ ExtraIdle

\* RuleSet::new
RuleSetNew ==
    /\ rs_outcome = "start"
    /\ rs_outcome' = IF RuleSetNewAccepts(rs_rules) THEN "ok" ELSE "panicked"
    /\ UNCHANGED <<rs_rules, solverVars, rulesVars, textVars, borderVars, chunkVars, extraVars>>

NextRuleSet == RuleSetNew
SpecRuleSet == InitRuleSet /\ [][NextRuleSet]_vars

\* u is allowed in direction d from t exactly when t is allowed in
\* opposite(d) from u
SymmetricRelation(rs) ==
    \A t \in DOMAIN rs : \A u \in DOMAIN rs : \A d \in Direction :
        (u \in RuleSide(rs[t], d)) <=> (t \in RuleSide(rs[u], opposite(d)))

\* C16: constructing a rule set from a relation over its tiles that is not
\* symmetric is rejected, and constructing from a symmetric relation succeeds.
C16_AsymmetricRejected ==
    (rs_outcome \in {"ok", "panicked"} /\ RuleIndicesValid(rs_rules)) =>
        ((rs_outcome = "ok") <=> SymmetricRelation(rs_rules))

\* a relation over two tiles with exactly one unmatched entry was rejected
C16_Witness ==
    /\ rs_outcome = "panicked"
    /\ RuleIndicesValid(rs_rules)
    /\ Cardinality(DOMAIN rs_rules) = 2
    /\ Cardinality({x \in (DOMAIN rs_rules) \X (DOMAIN rs_rules) \X Direction :
            (x[2] \in RuleSide(rs_rules[x[1]], x[3]))
              /\ (x[1] \notin RuleSide(rs_rules[x[2]], opposite(x[3])))}) = 1

----------------------------------------------------------------------------
(* Frequencies *)

\* C17: Rules::new rejects every frequency vector that contains 0, so in every
\* solve all frequencies are positive and the uniform fallback of the collapse
\* step is never taken (the only uniform draws are the retry picks of the
\* backtracking solver).
C17_NoUniformFallback ==
    (pc # "idle") =>
        /\ \A t \in DOMAIN rules.frequencies : rules.frequencies[t] > 0
        /\ (last_draw = "uniform" => (algo = "bt" /\ backtrack_attempts > 0))

\* the fast solver made a weighted draw among tiles of different frequencies
C17_Witness ==
    /\ algo = "fast"
    /\ last_draw = "weighted"
    /\ \E t \in DOMAIN rules.frequencies : rules.frequencies[t] > 1

----------------------------------------------------------------------------
(* Map::bordering_chunk and Map::set_shared_border.  A map is a sequence of  *)
(* rows of cells; row 1 is the north row, column 1 the west column.          *)

MaxChunkSide == 3

MapHeight(m) == Len(m)
MapWidth(m) == Len(m[1])

\* Map::empty
MapEmpty(h, w) == [y \in 1 .. h |-> [x \in 1 .. w |-> Wildcard]]

\* the assertions of bordering_chunk
BorderingChunkAccepts(m, direction, b) ==
    /\ b > 0
    /\ IF direction \in {"North", "South"} THEN b < MapHeight(m) ELSE b < MapWidth(m)

\* mutant of BorderingChunk: the strip is written on the side it was read from
BorderingChunkSameSide(m, direction, b) ==
    LET h == MapHeight(m)
        w == MapWidth(m)
    IN [y \in 1 .. h |-> [x \in 1 .. w |->
          CASE direction = "North" -> IF y <= b THEN m[y][x] ELSE Wildcard
            [] direction = "East"  -> IF x > w - b THEN m[y][x] ELSE Wildcard
            [] direction = "South" -> IF y > h - b THEN m[y][x] ELSE Wildcard
            [] direction = "West"  -> IF x <= b THEN m[y][x] ELSE Wildcard]]

\* Map::bordering_chunk
BorderingChunk(m, direction, b) ==
    LET h == MapHeight(m)
        w == MapWidth(m)
    IN [y \in 1 .. h |-> [x \in 1 .. w |->
          CASE direction = "North" -> IF y > h - b THEN m[y - (h - b)][x] ELSE Wildcard
            [] direction = "East"  -> IF x <= b THEN m[y][x + (w - b)] ELSE Wildcard
            [] direction = "South" -> IF y <= b THEN m[y + (h - b)][x] ELSE Wildcard
            [] direction = "West"  -> IF x > w - b THEN m[y][x - (w - b)] ELSE Wildcard]]

\* the rows (North, South) or columns (East, West) of other that the slice of
\* set_shared_border selects; the slice bounds use the height and width of self
OtherSliceLen(self, other, direction, b) ==
    CASE direction = "North" -> MapHeight(other) - (MapHeight(self) - b)
      [] direction = "East"  -> b
      [] direction = "South" -> b
      [] direction = "West"  -> MapWidth(other) - (MapWidth(self) - b)

\* set_shared_border returns: its assertions hold, the slice of other is in
\* bounds, and assign() can broadcast it (equal length, or length 1)
SetSharedBorderAccepts(self, other, direction, b) ==
    /\ b > 0
    /\ IF direction \in {"North", "South"}
       THEN /\ b < MapHeight(self)
            /\ MapWidth(self) = MapWidth(other)
       ELSE /\ b < MapWidth(self)
            /\ MapHeight(self) = MapHeight(other)
    /\ CASE direction = "North" -> MapHeight(self) - b <= MapHeight(other)
         [] direction = "East"  -> b <= MapWidth(other)
         [] direction = "South" -> b <= MapHeight(other)
         [] direction = "West"  -> MapWidth(self) - b <= MapWidth(other)
    /\ OtherSliceLen(self, other, direction, b) \in {b, 1}

\* Map::set_shared_border
SetSharedBorder(self, other, direction, b) ==
    LET h == MapHeight(self)
        w == MapWidth(self)
        n == OtherSliceLen(self, other, direction, b)
    IN [y \in 1 .. h |-> [x \in 1 .. w |->
          CASE direction = "North" ->
                 IF y <= b THEN other[(h - b) + (IF n = 1 THEN 1 ELSE y)][x] ELSE self[y][x]
            [] direction = "East"  ->
                 IF x > w - b THEN other[y][x - (w - b)] ELSE self[y][x]
            [] direction = "South" ->
                 IF y > h - b THEN other[y - (h - b)][x] ELSE self[y][x]
            [] direction = "West"  ->
                 IF x <= b THEN other[y][(w - b) + (IF n = 1 THEN 1 ELSE x)] ELSE self[y][x]]]

\* the maps bordering_chunk is called on: every map of Wildcard, Ignore and
\* Fixed(0) cells, and the map whose cells are all different
BorderMaps ==
    UNION { [1 .. h -> [1 .. w -> {Wildcard, Ignore, Fixed(0)}]]
              \cup {[y \in 1 .. h |-> [x \in 1 .. w |-> Fixed((y - 1) * w + (x - 1))]]} :
            <<h, w>> \in (2 .. MaxChunkSide) \X (2 .. MaxChunkSide) }

InitBorder ==
    /\ bc_map \in BorderMaps
    /\ bc_direction \in Direction
    /\ bc_border_size \in 0 .. MaxChunkSide
    /\ bc_chunk = <<>>
    /\ bc_pc = "start"
    /\ SolverIdle
    /\ RulesIdle
    /\ TextIdle
    /\ RuleSetIdle
    /\ ChunkIdle
    /\ ExtraIdle

\* map.bordering_chunk(direction, border_size)
BorderingChunkCall ==
    /\ bc_pc = "start"
    /\ IF BorderingChunkAccepts(bc_map, bc_direction, bc_border_size)
       THEN /\ bc_chunk' = BorderingChunk(bc_map, bc_direction, bc_border_size)
            /\ bc_pc' = "returned"
       ELSE /\ bc_pc' = "panicked"
            /\ UNCHANGED bc_chunk
    /\ UNCHANGED <<bc_map, bc_direction, bc_border_size,
                   solverVars, rulesVars, textVars, ruleSetVars, chunkVars, extraVars>>

NextBorder == BorderingChunkCall
SpecBorder == InitBorder /\ [][NextBorder]_vars

\* the positions of the b-wide strip of an h x w map on side d
StripCells(h, w, d, b) ==
    CASE d = "North" -> (1 .. b) \X (1 .. w)
      [] d = "East"  -> (1 .. h) \X (w - b + 1 .. w)
      [] d = "South" -> (h - b + 1 .. h) \X (1 .. w)
      [] d = "West"  -> (1 .. h) \X (1 .. b)

\* the b-wide strip of m on side d, as rows of cells
Strip(m, d, b) ==
    LET h == MapHeight(m)
        w == MapWidth(m)
    IN CASE d = "North" -> [y \in 1 .. b |-> m[y]]
         [] d = "South" -> [y \in 1 .. b |-> m[h - b + y]]
         [] d = "West"  -> [y \in 1 .. h |-> [x \in 1 .. b |-> m[y][x]]]
         [] d = "East"  -> [y \in 1 .. h |-> [x \in 1 .. b |-> m[y][w - b + x]]]

\* C20: bordering_chunk(direction, b) returns a map of the same size whose
\* b-wide strip on the side opposite to direction equals this map's b-wide
\* strip on direction and whose other cells are Wildcard; it panics exactly
\* when b is 0 or not less than the side; and no step changes the map it is
\* called on.
C20_BorderingChunk ==
    /\ [](/\ (bc_pc = "returned") =>
              /\ BorderingChunkAccepts(bc_map, bc_direction, bc_border_size)
              /\ MapHeight(bc_chunk) = MapHeight(bc_map)
              /\ MapWidth(bc_chunk) = MapWidth(bc_map)
              /\ Strip(bc_chunk, opposite(bc_direction), bc_border_size)
                    = Strip(bc_map, bc_direction, bc_border_size)
              /\ \A y \in 1 .. MapHeight(bc_chunk) : \A x \in 1 .. MapWidth(bc_chunk) :
                    (<<y, x>> \notin StripCells(MapHeight(bc_chunk), MapWidth(bc_chunk),
                                                opposite(bc_direction), bc_border_size))
                        => bc_chunk[y][x] = Wildcard
          /\ (bc_pc = "panicked") =>
              ~BorderingChunkAccepts(bc_map, bc_direction, bc_border_size))
    /\ [][bc_map' = bc_map]_vars

\* a 2-wide east strip of a 3 x 3 map of distinct cells was carried over
C20_Witness ==
    /\ bc_pc = "returned"
    /\ bc_direction = "East"
    /\ bc_border_size = 2
    /\ MapHeight(bc_map) = 3
    /\ bc_map[1][1] = Fixed(0)
    /\ bc_map[3][3] = Fixed(8)

----------------------------------------------------------------------------
(* The chunked driver: examples/generate_map_in_chunks.rs, main.  The        *)
(* tileset allows every adjacency between its ChunkTiles tiles, so that      *)
(* collapse_map returns any completion of the template it is given.          *)

NumChunksY == 2
NumChunksX == 2
ChunkSide == 2
ChunkTiles == 2

ChunkPositions == (0 .. NumChunksY - 1) \X (0 .. NumChunksX - 1)

\* collapse_map: the maps a solver can return for the template
CollapseMap(template) ==
    { m \in [1 .. ChunkSide -> [1 .. ChunkSide -> {Fixed(t) : t \in 0 .. ChunkTiles - 1}]] :
        \A y \in 1 .. ChunkSide : \A x \in 1 .. ChunkSide :
            (template[y][x].tag = "Fixed") => (m[y][x] = template[y][x]) }

\* main up to the first pass: the array of empty chunks
InitChunks ==
    /\ chunks = [p \in ChunkPositions |-> MapEmpty(ChunkSide, ChunkSide)]
    /\ new_map = MapEmpty(ChunkSide, ChunkSide)
    /\ pass = "initial"
    /\ cy = 0
    /\ cx = 0
    /\ solve_count = [p \in ChunkPositions |-> 0]
    /\ chunk_border \in 1 .. ChunkSide - 1
    /\ SolverIdle
    /\ RulesIdle
    /\ TextIdle
    /\ RuleSetIdle
    /\ BorderIdle
    /\ ExtraIdle

\* chunks[(y, x)] = collapse_map(new_map, ...)
SolveChunk(template) ==
    /\ new_map' = template
    /\ \E solved \in CollapseMap(template) :
          chunks' = [chunks EXCEPT ![<<cy, cx>>] = solved]
    /\ solve_count' = [solve_count EXCEPT ![<<cy, cx>>] = @ + 1]

\* first pass: every chunk is generated independently, rows outside
GenerateInitialChunk ==
    /\ pass = "initial"
    /\ SolveChunk(MapEmpty(ChunkSide, ChunkSide))
    /\ IF cx + 1 < NumChunksX
       THEN cx' = cx + 1 /\ UNCHANGED <<cy, pass>>
       ELSE IF cy + 1 < NumChunksY
       THEN cx' = 0 /\ cy' = cy + 1 /\ UNCHANGED pass
       ELSE IF NumChunksY > 1
       THEN pass' = "north_south" /\ cy' = 1 /\ cx' = 0
       ELSE IF NumChunksX > 1
       THEN pass' = "west_east" /\ cy' = 0 /\ cx' = 1
       ELSE pass' = "done" /\ UNCHANGED <<cy, cx>>
    /\ UNCHANGED <<chunk_border, solverVars, rulesVars, textVars, ruleSetVars, borderVars, extraVars>>

\* second pass: for y in 1.., for x in 0..: the border of the northern neighbour
ProcessNorthSouthBorder ==
    /\ pass = "north_south"
    /\ LET north == chunks[<<cy - 1, cx>>]
           empty == MapEmpty(ChunkSide, ChunkSide)
       IN IF /\ BorderingChunkAccepts(north, "South", chunk_border)
             /\ SetSharedBorderAccepts(empty, BorderingChunk(north, "South", chunk_border),
                                       "North", chunk_border)
          THEN /\ SolveChunk(SetSharedBorder(empty,
                                 BorderingChunk(north, "South", chunk_border),
                                 "North", chunk_border))
               /\ IF cx + 1 < NumChunksX
                  THEN cx' = cx + 1 /\ UNCHANGED <<cy, pass>>
                  ELSE IF cy + 1 < NumChunksY
                  THEN cx' = 0 /\ cy' = cy + 1 /\ UNCHANGED pass
                  ELSE IF NumChunksX > 1
                  THEN pass' = "west_east" /\ cy' = 0 /\ cx' = 1
                  ELSE pass' = "done" /\ UNCHANGED <<cy, cx>>
          ELSE /\ pass' = "panicked"
               /\ UNCHANGED <<chunks, new_map, solve_count, cy, cx>>
    /\ UNCHANGED <<chunk_border, solverVars, rulesVars, textVars, ruleSetVars, borderVars, extraVars>>

\* third pass: for x in 1.., for y in 0..: the border of the western neighbour
ProcessWestEastBorder ==
    /\ pass = "west_east"
    /\ LET west == chunks[<<cy, cx - 1>>]
           empty == MapEmpty(ChunkSide, ChunkSide)
       IN IF /\ BorderingChunkAccepts(west, "East", chunk_border)
             /\ SetSharedBorderAccepts(empty, BorderingChunk(west, "East", chunk_border),
                                       "West", chunk_border)
          THEN /\ SolveChunk(SetSharedBorder(empty,
                                 BorderingChunk(west, "East", chunk_border),
                                 "West", chunk_border))
               /\ IF cy + 1 < NumChunksY
                  THEN cy' = cy + 1 /\ UNCHANGED <<cx, pass>>
                  ELSE IF cx + 1 < NumChunksX
                  THEN cy' = 0 /\ cx' = cx + 1 /\ UNCHANGED pass
                  ELSE pass' = "done" /\ UNCHANGED <<cy, cx>>
          ELSE /\ pass' = "panicked"
               /\ UNCHANGED <<chunks, new_map, solve_count, cy, cx>>
    /\ UNCHANGED <<chunk_border, solverVars, rulesVars, textVars, ruleSetVars, borderVars, extraVars>>

NextChunks == GenerateInitialChunk \/ ProcessNorthSouthBorder \/ ProcessWestEastBorder
SpecChunks == InitChunks /\ [][NextChunks]_vars

\* every cell of the b-wide strip of m on side d is Fixed
StripFixed(m, d, b) ==
    \A p \in StripCells(MapHeight(m), MapWidth(m), d, b) : m[p[1]][p[2]].tag = "Fixed"

\* C18: when a chunk with a solved north (west) neighbour is solved, the
\* border-wide north (west) strip of its template equals, cell for cell, the
\* south (east) strip of that neighbour, so every cell of the strip is Fixed.
C18_TemplateCarriesNeighbourBorder ==
    [][ /\ (pass = "north_south" /\ pass' # "panicked") =>
              /\ Strip(new_map', "North", chunk_border)
                    = Strip(chunks[<<cy - 1, cx>>], "South", chunk_border)
              /\ StripFixed(new_map', "North", chunk_border)
        /\ (pass = "west_east" /\ pass' # "panicked") =>
              /\ Strip(new_map', "West", chunk_border)
                    = Strip(chunks[<<cy, cx - 1>>], "East", chunk_border)
              /\ StripFixed(new_map', "West", chunk_border) ]_vars

\* C19: the driver solves each chunk exactly once, and in the final grid every
\* chunk agrees with its north and its west neighbour on the shared strip.
C19_SolvedOnceAndBordersAgree ==
    /\ \A p \in ChunkPositions : solve_count[p] <= 1
    /\ (pass = "done") =>
          /\ \A p \in ChunkPositions : solve_count[p] = 1
          /\ \A p \in ChunkPositions :
                /\ (p[1] > 0) =>
                      Strip(chunks[p], "North", chunk_border)
                        = Strip(chunks[<<p[1] - 1, p[2]>>], "South", chunk_border)
                /\ (p[2] > 0) =>
                      Strip(chunks[p], "West", chunk_border)
                        = Strip(chunks[<<p[1], p[2] - 1>>], "East", chunk_border)

----------------------------------------------------------------------------
(* Map::set_shared_border, called on maps whose extents may differ           *)

\* the maps set_shared_border is called on: per shape, the map whose cells
\* are all different, the all-Wildcard map and the all-Ignore map
SharedSelfMaps ==
    UNION { { [y \in 1 .. h |-> [x \in 1 .. w |-> Fixed((y - 1) * w + (x - 1))]],
              MapEmpty(h, w),
              [y \in 1 .. h |-> [x \in 1 .. w |-> Ignore]] } :
            <<h, w>> \in (2 .. MaxChunkSide) \X (2 .. MaxChunkSide) }

\* the other maps: per shape, a map of different cells that occur in no self
\* map, and the all-Ignore map
SharedOtherMaps ==
    UNION { { [y \in 1 .. h |-> [x \in 1 .. w |-> Fixed(100 + (y - 1) * w + (x - 1))]],
              [y \in 1 .. h |-> [x \in 1 .. w |-> Ignore]] } :
            <<h, w>> \in (2 .. MaxChunkSide) \X (2 .. MaxChunkSide) }

InitShared ==
    /\ sb_self \in SharedSelfMaps
    /\ sb_other \in SharedOtherMaps
    /\ sb_direction \in Direction
    /\ sb_border_size \in 0 .. MaxChunkSide
    /\ sb_result = <<>>
    /\ sb_pc = "start"
    /\ SolverIdle
    /\ RulesIdle
    /\ TextIdle
    /\ RuleSetIdle
    /\ BorderIdle
    /\ ChunkIdle
    /\ CommonIdle
    /\ BuilderIdle

\* self.set_shared_border(&other, direction, border_size)
SetSharedBorderCall ==
    /\ sb_pc = "start"
    /\ IF SetSharedBorderAccepts(sb_self, sb_other, sb_direction, sb_border_size)
       THEN /\ sb_result' = SetSharedBorder(sb_self, sb_other, sb_direction,
                                            sb_border_size)
            /\ sb_pc' = "returned"
       ELSE /\ sb_pc' = "panicked"
            /\ UNCHANGED sb_result
    /\ UNCHANGED <<sb_self, sb_other, sb_direction, sb_border_size,
                   solverVars, rulesVars, textVars, ruleSetVars, borderVars, chunkVars,
                   commonVars, builderVars>>

NextShared == SetSharedBorderCall
SpecShared == InitShared /\ [][NextShared]_vars

\* the extent of m across a border on side d
SideExtent(m, d) == IF d \in {"North", "South"} THEN MapHeight(m) ELSE MapWidth(m)

\* the extent of m along a border on side d
SharedExtent(m, d) == IF d \in {"North", "South"} THEN MapWidth(m) ELSE MapHeight(m)

\* C21: set_shared_border(other, direction, b), called with 0 < b, b less than
\* this map's extent across the border, b at most other's extent across the
\* border and equal extents along the border, returns; this map's b-wide
\* strip on direction is then other's b-wide strip on the opposite side,
\* measured from other's own edge, and every cell outside that strip is
\* unchanged, also when other has a different extent across the border.
C21_SetSharedBorder ==
    (/\ sb_pc # "start"
     /\ sb_border_size > 0
     /\ sb_border_size < SideExtent(sb_self, sb_direction)
     /\ sb_border_size <= SideExtent(sb_other, sb_direction)
     /\ SharedExtent(sb_self, sb_direction) = SharedExtent(sb_other, sb_direction))
    => /\ sb_pc = "returned"
       /\ MapHeight(sb_result) = MapHeight(sb_self)
       /\ MapWidth(sb_result) = MapWidth(sb_self)
       /\ Strip(sb_result, sb_direction, sb_border_size)
             = Strip(sb_other, opposite(sb_direction), sb_border_size)
       /\ \A y \in 1 .. MapHeight(sb_self) : \A x \in 1 .. MapWidth(sb_self) :
             (<<y, x>> \notin StripCells(MapHeight(sb_self), MapWidth(sb_self),
                                         sb_direction, sb_border_size))
                 => sb_result[y][x] = sb_self[y][x]

----------------------------------------------------------------------------
(* collapse() from its first line, on maps that may hold a Fixed index that  *)
(* is not a tile of the rules                                                *)

\* FixedBitSet::insert(bit) panics when bit is not below the capacity
DomainPanics(cell, num_tiles) == cell.tag = "Fixed" /\ cell.index >= num_tiles

\* the maps given to collapse, and those with a Fixed index of num_tiles
StartMaps(n) ==
    UNION { { [c \in GridCells(Height, Width) |-> IF c \in S THEN f[c] ELSE Wildcard] :
                f \in [S -> Special(n + 1)] } :
            S \in {T \in SUBSET GridCells(Height, Width) : Cardinality(T) <= MaxSeeds} }

\* collapse(map, rules, rng) is called
InitStart ==
    \E atlas \in Atlases :
        /\ RulesNewAccepts(atlas.adj, atlas.frequencies)
        /\ algo \in {"fast", "opt", "bt"}
        /\ map \in StartMaps(NumTiles(atlas))
        /\ rules = RulesNew(atlas.adj, atlas.frequencies)
        /\ domains = <<>>
        /\ domain_sizes = <<>>
        /\ queue = <<>>
        /\ iteration_count = 0
        /\ bucket_sets = <<>>
        /\ affected_cells = {}
        /\ pc = "start"
        /\ result = <<>>
        /\ error = NoError
        /\ decision_stack = <<>>
        /\ backtrack_attempts = 0
        /\ draws = 0
        /\ last_draw = "none"
        /\ rng_log = <<>>
        /\ replay = "recording"
        /\ first_result = <<>>
        /\ RulesIdle
        /\ TextIdle
        /\ AuxIdle

\* the domains and counts are initialised, the neighbours precomputed and the
\* initial queue populated; the insert of a Fixed index panics when the index
\* is not a tile
CollapseStart(a) ==
    /\ algo = a
    /\ pc = "start"
    /\ IF \E c \in Cells : DomainPanics(map[c], NumRuleTiles)
       THEN /\ pc' = "panicked"
            /\ UNCHANGED <<domains, domain_sizes, queue, bucket_sets, result,
                           first_result>>
       ELSE /\ domains' = MapDomains(map, NumRuleTiles)
            /\ domain_sizes' = [c \in Cells |->
                  IF mask(map)[c] THEN 0
                  ELSE Cardinality(domain(map[c], NumRuleTiles))]
            /\ queue' = InitialArcs(a, map, 1)
            /\ bucket_sets' = [e \in 0 .. NumRuleTiles |-> {}]
            /\ result' = map
            /\ first_result' = map
            /\ pc' = "init_prop"
    /\ UNCHANGED <<algo, map, rules, iteration_count, affected_cells, error,
                   decision_stack, backtrack_attempts, draws, last_draw, rng_log,
                   replay, rulesVars, textVars, auxVars>>

FastStart == CollapseStart("fast")
OptStart == CollapseStart("opt")
BtStart == CollapseStart("bt")

NextStart == FastStart \/ OptStart \/ BtStart \/ NextFast \/ NextOpt \/ NextBt
SpecStart == InitStart /\ [][NextStart]_vars

\* C22: a map that holds a cell Fixed(i) with i not below the number of tiles
\* is rejected with an InvalidMap failure value before any solver state is
\* built, and no propagation is started on it.
C22_InvalidMapRejected ==
    ((\E c \in Cells : DomainPanics(map[c], NumRuleTiles)) /\ pc # "start")
    => /\ pc = "failed"
       /\ error.kind = "InvalidMap"
       /\ domains = <<>>
       /\ queue = <<>>
       /\ iteration_count = 0

----------------------------------------------------------------------------
(* common.rs: initial_propagation and propagate_constraints.  No solver of   *)
(* the crate calls them; they are driven here as the solvers drive their own *)
(* copies: one initial propagation, then a cell with two or more candidates  *)
(* is collapsed to one of them and propagate_constraints is called on it.    *)

SmallMaxIterations == 6
LargeMaxIterations == 12

\* the sequence s started at its element k + 1
Rotate(s, k) == [i \in 1 .. Len(s) |-> s[((i - 1 + k) % Len(s)) + 1]]

Reverse(s) == [i \in 1 .. Len(s) |-> s[Len(s) + 1 - i]]

\* processing orders of the initial arcs: the row-major order of
\* initial_propagation, its rotations, and their reversals
ArcOrders(arcs) ==
    IF arcs = <<>> THEN {arcs}
    ELSE {Rotate(arcs, k) : k \in 0 .. Len(arcs) - 1}
            \cup {Reverse(Rotate(arcs, k)) : k \in 0 .. Len(arcs) - 1}

\* four tiles, each with a support on every side (East: 0->1, 1->2,3,
\* 2->0,1, 3->2,3; South: 0->2, 1->2,3, 2->0,1, 3->0,1): with tile 0 in a
\* corner of a 2 x 2 map the opposite corner keeps two tiles after the first
\* of its arcs and none after the second
WipeAtlas ==
    [adj |-> [i \in 0 .. 3, j \in 0 .. 3, k \in 0 .. 1 |->
                IF k = 0
                THEN (i = 0 /\ j = 1) \/ (i \in {1, 3} /\ j \in {2, 3})
                        \/ (i = 2 /\ j \in {0, 1})
                ELSE (j = 0 /\ i = 2) \/ (j = 1 /\ i \in {2, 3})
                        \/ (j \in {2, 3} /\ i \in {0, 1})],
     frequencies |-> [t \in 0 .. 3 |-> 1]]

CommonAtlases == Atlases \cup {WipeAtlas}

\* a BacktrackState that has recorded nothing (the fields are the ones
\* propagate_constraints uses)
EmptyJournal ==
    [changed_cells |-> {}, domain_copies |-> <<>>, domain_size_copies |-> <<>>]

\* mutant of Journal: the copies of a cell are written at every visit
JournalOverwrites(state, xi, doms, sizes) ==
    [changed_cells |-> state.changed_cells \cup {xi},
     domain_copies |->
        [c \in state.changed_cells \cup {xi} |->
            IF c = xi THEN doms[xi] ELSE state.domain_copies[c]],
     domain_size_copies |->
        [c \in state.changed_cells \cup {xi} |->
            IF c = xi THEN sizes[xi] ELSE state.domain_size_copies[c]]]

\* before modifying a domain, save its state: the first time xi is popped
\* its domain and its size are copied
Journal(state, xi, doms, sizes) ==
    IF xi \in state.changed_cells THEN state
    ELSE [changed_cells |-> state.changed_cells \cup {xi},
          domain_copies |->
             [c \in state.changed_cells \cup {xi} |->
                 IF c = xi THEN doms[xi] ELSE state.domain_copies[c]],
          domain_size_copies |->
             [c \in state.changed_cells \cup {xi} |->
                 IF c = xi THEN sizes[xi] ELSE state.domain_size_copies[c]]]

\* the caller built domains and domain_sizes from the map; the queue of
\* initial_propagation is populated
InitCommon ==
    \E atlas \in CommonAtlases :
      \E m \in Maps(NumTiles(atlas)) :
        /\ RulesNewAccepts(atlas.adj, atlas.frequencies)
        /\ algo = "common"
        /\ map = m
        /\ rules = RulesNew(atlas.adj, atlas.frequencies)
        /\ domains = MapDomains(m, NumTiles(atlas))
        /\ domain_sizes = [c \in DOMAIN m |->
              IF mask(m)[c] THEN 0 ELSE Cardinality(domain(m[c], NumTiles(atlas)))]
        /\ queue \in ArcOrders(InitialArcs("common", m, 1))
        /\ iteration_count = 0
        /\ bucket_sets = <<>>
        /\ affected_cells = {}
        /\ pc = "init_prop"
        /\ result = m
        /\ error = NoError
        /\ decision_stack = <<>>
        /\ backtrack_attempts = 0
        /\ draws = 0
        /\ last_draw = "none"
        /\ rng_log = <<>>
        /\ replay = "recording"
        /\ first_result = m
        /\ max_iterations \in {SmallMaxIterations, LargeMaxIterations}
        /\ total_revisions = 0
        /\ sizes_before = <<>>
        /\ domains_before = <<>>
        /\ backtrack_state = EmptyJournal
        /\ RulesIdle
        /\ TextIdle
        /\ RuleSetIdle
        /\ BorderIdle
        /\ ChunkIdle
        /\ SharedIdle
        /\ BuilderIdle

\* initial_propagation: one iteration of its loop
CommonInitialPropagation ==
    /\ algo = "common"
    /\ pc = "init_prop"
    /\ queue # <<>>
    /\ LET s == PopAndRevise("common", map, rules, domains, domain_sizes, queue,
                             iteration_count)
       IN /\ domains' = s.domains
          /\ domain_sizes' = s.sizes
          /\ queue' = s.queue
          /\ iteration_count' = iteration_count + 1
          /\ total_revisions' = IF s.status = "limit" THEN total_revisions
                                ELSE total_revisions + 1
          /\ CASE s.status = "limit" -> Fail("IterationLimit", s.xi, "initial")
               [] s.status = "contradiction" -> Fail("Contradiction", s.xi, "initial")
               [] s.status = "ok" -> UNCHANGED <<pc, error>>
    /\ UNCHANGED <<algo, map, rules, bucket_sets, affected_cells, result,
                   decision_stack, backtrack_attempts, draws, last_draw, rng_log,
                   replay, first_result, max_iterations, sizes_before,
                   domains_before, backtrack_state,
                   rulesVars, textVars, ruleSetVars, borderVars, chunkVars, sharedVars,
                   builderVars>>

\* initial_propagation returns Ok(())
CommonInitialPropagationDone ==
    /\ algo = "common"
    /\ pc = "init_prop"
    /\ queue = <<>>
    /\ pc' = "select"
    /\ UNCHANGED <<algo, map, rules, domains, domain_sizes, queue, iteration_count,
                   bucket_sets, affected_cells, result, error, decision_stack,
                   backtrack_attempts, draws, last_draw, rng_log, replay,
                   first_result, commonVars,
                   rulesVars, textVars, ruleSetVars, borderVars, chunkVars, sharedVars,
                   builderVars>>

\* the caller collapses a cell, then propagate_constraints is entered: its
\* queue starts with the arcs of the neighbours of start_cell
CommonCollapse ==
    /\ algo = "common"
    /\ pc = "select"
    /\ \E start_cell \in Cells :
         /\ ~mask(map)[start_cell]
         /\ domain_sizes[start_cell] >= 2
         /\ \E choice \in domains[start_cell] :
              /\ domains' = [domains EXCEPT ![start_cell] = {choice}]
              /\ domain_sizes' = [domain_sizes EXCEPT ![start_cell] = 1]
              /\ sizes_before' = [domain_sizes EXCEPT ![start_cell] = 1]
              /\ domains_before' = [domains EXCEPT ![start_cell] = {choice}]
              /\ queue' = ArcsFrom("common", map, start_cell)
    /\ affected_cells' = {}
    /\ iteration_count' = 0
    /\ draws' = draws + 1
    /\ backtrack_state' = EmptyJournal
    /\ max_iterations' \in {SmallMaxIterations, LargeMaxIterations}
    /\ pc' = "propagate"
    /\ UNCHANGED <<algo, map, rules, bucket_sets, result, error, decision_stack,
                   backtrack_attempts, last_draw, rng_log, replay, first_result,
                   total_revisions,
                   rulesVars, textVars, ruleSetVars, borderVars, chunkVars, sharedVars,
                   builderVars>>

\* mutant of AffectedAfter: every revised cell is recorded
AffectedAfterAlways(affected, s) == affected \cup {s.xi}

\* affected_cells after one iteration: xi is inserted when revise returned
\* true and left tiles
AffectedAfter(affected, s) ==
    IF s.status = "ok" /\ s.modified THEN affected \cup {s.xi} ELSE affected

\* propagate_constraints: one iteration of its loop
CommonPropagate ==
    /\ algo = "common"
    /\ pc = "propagate"
    /\ queue # <<>>
    /\ LET s == PopAndRevise("common", map, rules, domains, domain_sizes, queue,
                             iteration_count)
       IN /\ domains' = s.domains
          /\ domain_sizes' = s.sizes
          /\ queue' = s.queue
          /\ iteration_count' = iteration_count + 1
          /\ total_revisions' = IF s.status = "limit" THEN total_revisions
                                ELSE total_revisions + 1
          /\ affected_cells' = AffectedAfter(affected_cells, s)
          /\ backtrack_state' = Journal(backtrack_state, s.xi, domains, domain_sizes)
          /\ CASE s.status = "limit" -> Fail("IterationLimit", s.xi, "collapse")
               [] s.status = "contradiction" -> Fail("Contradiction", s.xi, "collapse")
               [] s.status = "ok" -> UNCHANGED <<pc, error>>
    /\ UNCHANGED <<algo, map, rules, bucket_sets, result, decision_stack,
                   backtrack_attempts, draws, last_draw, rng_log, replay,
                   first_result, max_iterations, sizes_before, domains_before,
                   rulesVars, textVars, ruleSetVars, borderVars, chunkVars, sharedVars,
                   builderVars>>

\* propagate_constraints returns Ok(affected_cells)
CommonPropagateDone ==
    /\ algo = "common"
    /\ pc = "propagate"
    /\ queue = <<>>
    /\ pc' = "select"
    /\ UNCHANGED <<algo, map, rules, domains, domain_sizes, queue, iteration_count,
                   bucket_sets, affected_cells, result, error, decision_stack,
                   backtrack_attempts, draws, last_draw, rng_log, replay,
                   first_result, commonVars,
                   rulesVars, textVars, ruleSetVars, borderVars, chunkVars, sharedVars,
                   builderVars>>

NextCommon ==
    \/ CommonInitialPropagation
    \/ CommonInitialPropagationDone
    \/ CommonCollapse
    \/ CommonPropagate
    \/ CommonPropagateDone

SpecCommon == InitCommon /\ [][NextCommon]_vars

\* C23: after every call revise(a, b, d) of the shared propagator, whatever the
\* sizes of domain[a] and domain[b] on entry, every tile u left in domain[a]
\* has a supporting tile v in domain[b] with v in mask[u][d].
C23_ReviseLeavesSupported ==
    [][(/\ pc \in {"init_prop", "propagate"}
        /\ queue # <<>>
        /\ total_revisions' = total_revisions + 1)
       => LET xi == Head(queue)[1]
              xj == Head(queue)[2]
              dir == Head(queue)[3]
          IN \A u \in domains'[xi] :
                \E v \in domains'[xj] : v \in rules.masks[u][dir]]_vars

----------------------------------------------------------------------------
(* Arc consistency after a drained propagation *)

\* every tile of every participating cell has a support in every
\* participating neighbour
ArcConsistent(a, m, doms, masks) ==
    \A c \in Cells :
        ~mask(m)[c] =>
            \A k \in 1 .. Len(neighbours(a, m, c)) :
                LET n == neighbours(a, m, c)[k]
                IN \A u \in doms[c] : \E v \in doms[n.pos] : v \in masks[u][n.dir]

\* C24: in WaveFunctionOptimised and WaveFunctionWithBacktracking, whenever the
\* initial propagation or a propagation after a collapse has drained its queue
\* without contradiction, the whole grid is arc consistent, although the arc
\* back to the cell a revision came from is never enqueued.
C24_ArcConsistentAfterDrain ==
    (algo \in {"opt", "bt"} /\ pc = "select")
    => ArcConsistent(algo, map, domains, rules.masks)

\* a propagation after a collapse shrank a neighbour and drained its queue
C24_Witness ==
    /\ algo \in {"opt", "bt"}
    /\ pc = "select"
    /\ draws > 0
    /\ affected_cells # {}
    /\ \E c \in Cells : Cardinality(domains[c]) >= 2

RECURSIVE InitialPropagationRun(_, _, _, _)
\* initial_propagation run to its end on a given queue: the outcome and the
\* domains it leaves
InitialPropagationRun(doms, sizes, q, count) ==
    IF q = <<>> THEN [status |-> "ok", domains |-> doms]
    ELSE LET s == PopAndRevise("common", map, rules, doms, sizes, q, count)
         IN IF s.status # "ok"
            THEN [status |-> s.status, domains |-> s.domains]
            ELSE InitialPropagationRun(s.domains, s.sizes, s.queue, count + 1)

\* the outcome of initial_propagation when the arcs are processed in the
\* row-major order in which initial_propagation enqueues them
RowMajorOutcome ==
    InitialPropagationRun(
        MapDomains(map, NumRuleTiles),
        [c \in Cells |-> IF mask(map)[c] THEN 0
                         ELSE Cardinality(domain(map[c], NumRuleTiles))],
        InitialArcs("common", map, 1), 0)

\* initial_propagation has returned, and no collapse was made yet
InitialPropagationReturned ==
    \/ pc = "select" /\ draws = 0
    \/ pc = "failed" /\ error.phase = "initial"

----------------------------------------------------------------------------
(* Termination of collapse.  collapse is a sequential loop that is always    *)
(* scheduled, so a step that is possible is eventually taken.                *)

SpecFair == Spec /\ WF_vars(Next)

\* C26: every call of collapse terminates, returning a map or an error; in
\* each propagation an arc is enqueued only by a revision that strictly shrank
\* a domain; and the main loop of the fast solver collapses a cell in every
\* iteration that does not end the call, at most one per participating cell.
C26_CollapseTerminates ==
    /\ <>(pc \in {"done", "failed"})
    /\ [][(/\ pc \in {"init_prop", "propagate", "bt_propagate"}
           /\ queue # <<>>
           /\ Len(queue') >= Len(queue))
          => \E c \in Cells : /\ domains'[c] \subseteq domains[c]
                              /\ domains'[c] # domains[c]]_vars
    /\ [](algo = "fast" => draws <= Cardinality({c \in Cells : ~mask(map)[c]}))
    /\ [][(algo = "fast" /\ pc = "select")
          => (draws' = draws + 1 \/ pc' \in {"done", "failed"})]_vars

\* the fast solver returned a map after one collapse per cell
C26_Witness ==
    /\ algo = "fast"
    /\ pc = "done"
    /\ draws = Cardinality(Cells)

\* C27: when propagate_constraints returns Ok, the returned set is exactly the
\* set of cells whose domain size after the call differs from its size before
\* the call.
C27_AffectedIsChanged ==
    (algo = "common" /\ pc = "select" /\ draws > 0)
    => affected_cells = {c \in Cells : domain_sizes[c] # sizes_before[c]}

\* propagate_constraints returned a set that holds a cell and leaves out
\* another participating cell
C27_Witness ==
    /\ algo = "common"
    /\ pc = "select"
    /\ draws > 0
    /\ affected_cells # {}
    /\ \E c \in Cells : ~mask(map)[c] /\ c \notin affected_cells

\* C28: max_iterations bounds the total number of arc revisions of one solve:
\* over the initial propagation and all later propagations together a solve
\* never performs more than max_iterations revisions (no call is given a
\* bound above LargeMaxIterations).
C28_TotalRevisionsBounded ==
    algo = "common" => total_revisions <= LargeMaxIterations

\* C28 (amended): max_iterations bounds the arc revisions of each propagation
\* separately.  The counter restarts at 0 for the initial propagation and for
\* every later propagation; an arc is revised only while the counter is at
\* most max_iterations, and the propagation that pops one more arc ends with
\* IterationLimit.  The revisions of a whole solve are not bounded by it.
C28_EachPropagationBounded ==
    algo = "common"
    => /\ iteration_count <= max_iterations + 1
       /\ (iteration_count = max_iterations + 1)
             <=> (pc = "failed" /\ error.kind = "IterationLimit")
       /\ (pc \in {"init_prop", "propagate"} /\ draws = 0)
             => total_revisions = iteration_count

\* a solve that made more revisions than any max_iterations it was given and
\* met no limit
C28_Witness ==
    /\ algo = "common"
    /\ pc = "select"
    /\ error = NoError
    /\ total_revisions > LargeMaxIterations

----------------------------------------------------------------------------
(* Selection of the cell to collapse *)

\* the participating cells that still have two or more candidate tiles
Undecided(m, doms) == {c \in Cells : ~mask(m)[c] /\ Cardinality(doms[c]) >= 2}

\* C29: every cell chosen for a collapse decision has, at the moment it is
\* chosen, the smallest domain size among all participating cells whose
\* domain size is at least 2.
C29_LowestEntropyChosen ==
    [][(pc = "select" /\ draws' = draws + 1)
       => \A c \in Cells :
             (domains'[c] # domains[c])
             => /\ c \in Undecided(map, domains)
                /\ \A o \in Undecided(map, domains) :
                      Cardinality(domains[c]) <= Cardinality(domains[o])]_vars

\* a decision is about to be made while the undecided cells have different
\* domain sizes
C29_Witness ==
    /\ pc = "select"
    /\ \E c, o \in Undecided(map, domains) :
          Cardinality(domains[c]) < Cardinality(domains[o])

----------------------------------------------------------------------------
(* The frames of the backtracking decision stack *)

\* the options of a decision point that were not tried yet
UntriedOptions(frame) == frame.domains[frame.cell_idx] \ frame.tried_options

\* the frame on top of a stack
TopFrame(stack) == stack[Len(stack)]

\* a frame is placed on the stack: at a first decision, or when the popped
\* frame is pushed back for a retry
FramePlaced ==
    \/ pc = "select" /\ Len(decision_stack') = Len(decision_stack) + 1
    \/ pc = "backtrack" /\ pc' = "bt_propagate"

\* C30: every frame that is placed on the backtracking decision stack, at a
\* first decision or when it is put back after a retry, belongs to a decision
\* that still has at least one untried alternative at the moment it is placed.
C30_PlacedFrameHasAlternative ==
    [][FramePlaced => UntriedOptions(TopFrame(decision_stack')) # {}]_vars

\* C30 (amended): a frame placed at a first decision has at least one untried
\* alternative.  A frame put back after a retry has the retried tile, one of
\* its untried options, marked as tried, so it has one untried option less
\* than when it was popped and may have none; a popped frame without untried
\* options is discarded and nothing is restored from it.
C30_FirstFrameHasAlternative ==
    [][/\ (pc = "select" /\ Len(decision_stack') = Len(decision_stack) + 1)
          => /\ UntriedOptions(TopFrame(decision_stack')) # {}
             /\ TopFrame(decision_stack').tried_options
                   = {TopFrame(decision_stack').choice}
       /\ (pc = "backtrack" /\ pc' = "bt_propagate")
          => /\ Len(decision_stack') = Len(decision_stack)
             /\ TopFrame(decision_stack').choice
                   \in UntriedOptions(TopFrame(decision_stack))
             /\ UntriedOptions(TopFrame(decision_stack'))
                   = UntriedOptions(TopFrame(decision_stack))
                        \ {TopFrame(decision_stack').choice}
       /\ (/\ pc = "backtrack"
           /\ decision_stack # <<>>
           /\ UntriedOptions(TopFrame(decision_stack)) = {})
          => /\ Len(decision_stack') = Len(decision_stack) - 1
             /\ domains' = domains
             /\ pc' = "backtrack"]_vars

\* a frame was put back after a retry and has no untried option left
C30_Witness ==
    /\ algo = "bt"
    /\ pc = "bt_propagate"
    /\ decision_stack # <<>>
    /\ UntriedOptions(TopFrame(decision_stack)) = {}

----------------------------------------------------------------------------
(* Backtracking: depth of the decision stack                                *)

\* the depth cap the decision stack is compared with; backtracking.rs
\* declares MAX_ITERATIONS, MAX_BACKTRACK_ATTEMPTS and MAX_RUNTIME_SECONDS
\* only, and a push (lines 311 and 418) is not preceded by any length test
MAX_BACKTRACK_DEPTH == 3

\* a step that pushes a new decision point (backtracking.rs 311)
PushesDecision ==
    /\ algo = "bt"
    /\ pc = "select"
    /\ pc' = "propagate"

\* C31: the decision stack of the backtracking solver never holds more than
\* MAX_BACKTRACK_DEPTH frames, and a push onto a stack that is full drops the
\* oldest frame first, so that the frames above it move down by one.
C31_StackCapped ==
    [][ /\ Len(decision_stack') <= MAX_BACKTRACK_DEPTH
        /\ (PushesDecision /\ Len(decision_stack) = MAX_BACKTRACK_DEPTH
              => /\ Len(decision_stack') = MAX_BACKTRACK_DEPTH
                 /\ \A k \in 1 .. MAX_BACKTRACK_DEPTH - 1 :
                        decision_stack'[k] = decision_stack[k + 1]) ]_vars

----------------------------------------------------------------------------
(* Backtracking: what a backtrack restores                                  *)

\* the snapshot fields of a decision point
Snapshot(frame) ==
    [cell_idx |-> frame.cell_idx, domains |-> frame.domains,
     counts |-> frame.counts, bucket_sets |-> frame.bucket_sets]

\* a step of the 'backtrack loop that retries the popped decision point with
\* a new choice (backtracking.rs 394-424)
RetriesDecision ==
    /\ algo = "bt"
    /\ pc = "backtrack"
    /\ pc' = "bt_propagate"

\* C32: the snapshot of a decision point is the domains, sizes and buckets
\* (without the chosen cell) as they were before its decision was applied, it
\* stays as it is while the frame is on the stack, and a backtrack to the frame
\* sets domains, sizes and buckets to that snapshot, changed only in the
\* domain and the size of the cell of the frame, which become the new choice
\* alone.
C32_BacktrackRestoresSnapshot ==
    [][ /\ PushesDecision =>
              LET F == decision_stack'[Len(decision_stack')]
              IN /\ Len(decision_stack') = Len(decision_stack) + 1
                 /\ F.domains = domains
                 /\ F.counts = domain_sizes
                 /\ F.bucket_sets =
                       [e \in DOMAIN bucket_sets |-> bucket_sets[e] \ {F.cell_idx}]
        /\ RetriesDecision =>
              LET F == decision_stack[Len(decision_stack)]
                  x == F.cell_idx
                  G == decision_stack'[Len(decision_stack')]
              IN /\ Len(decision_stack') = Len(decision_stack)
                 /\ \A c \in Cells \ {x} :
                        /\ domains'[c] = F.domains[c]
                        /\ domain_sizes'[c] = F.counts[c]
                 /\ domains'[x] = {G.choice}
                 /\ domain_sizes'[x] = 1
                 /\ bucket_sets' = F.bucket_sets
        /\ \A k \in 1 .. Len(decision_stack) :
              k <= Len(decision_stack') =>
                  Snapshot(decision_stack'[k]) = Snapshot(decision_stack[k]) ]_vars

\* a backtrack has just restored a snapshot in which a cell other than the
\* retried one has its candidates back
C32_Witness ==
    /\ algo = "bt"
    /\ pc = "bt_propagate"
    /\ iteration_count = 0
    /\ backtrack_attempts > 0
    /\ LET F == decision_stack[Len(decision_stack)]
       IN /\ domains[F.cell_idx] = {F.choice}
          /\ \E c \in Cells \ {F.cell_idx} :
                /\ domains[c] = F.domains[c]
                /\ Cardinality(domains[c]) >= 2

----------------------------------------------------------------------------
(* Backtracking: the tried options of a decision point                      *)

\* C33: a retry selects a tile of the pre-decision domain of the frame's
\* cell that is not in the frame's tried set and adds it to that set; a new
\* frame starts with its first choice as its tried set; every frame's choice
\* is in its tried set; no step changes the tried set of a frame other than
\* the one it retries.
C33_NoTileSelectedTwice ==
    [][ /\ RetriesDecision =>
              LET F == decision_stack[Len(decision_stack)]
                  G == decision_stack'[Len(decision_stack')]
              IN /\ G.choice \notin F.tried_options
                 /\ G.choice \in F.domains[F.cell_idx]
                 /\ G.tried_options = F.tried_options \cup {G.choice}
        /\ PushesDecision =>
              LET G == decision_stack'[Len(decision_stack')]
              IN /\ G.tried_options = {G.choice}
                 /\ G.choice \in domains[G.cell_idx]
        /\ \A k \in 1 .. Len(decision_stack) :
              /\ decision_stack[k].choice \in decision_stack[k].tried_options
              /\ (k <= Len(decision_stack') /\ ~(RetriesDecision /\ k = Len(decision_stack))
                    => decision_stack'[k].tried_options = decision_stack[k].tried_options)
      ]_vars

\* a frame that has been retried lies on a frame that has not
C33_Witness ==
    /\ algo = "bt"
    /\ Len(decision_stack) >= 2
    /\ Cardinality(decision_stack[Len(decision_stack)].tried_options) >= 2
    /\ Cardinality(decision_stack[1].tried_options) = 1

----------------------------------------------------------------------------
(* The backtracking solver on a map with two loops of cells: a decision in  *)
(* the first column leaves the loop of the other two columns undecided      *)

DeepWidth == 3

\* n tiles that go on a loop only where a tile is its own East and North
\* neighbour (East: 0->1->2->0, North: 0<->1, 2->2; with n = 4 tile 3 is next
\* to itself on all sides), and two tiles n, n + 1 that stand above and below
\* each other and have nothing to their West; tile n has any of the tiles
\* 0..2 to its East, tile n + 1 any of the n tiles
JokerAtlas(n) ==
    [adj |-> [i \in 0 .. n + 1, j \in 0 .. n + 1, k \in 0 .. 1 |->
                IF k = 0
                THEN (i < 3 /\ j = (i + 1) % 3) \/ (i = 3 /\ n = 4 /\ j = 3)
                        \/ (i >= n /\ j < 3) \/ (i = n + 1 /\ j < n)
                ELSE (i = 0 /\ j = 1) \/ (i = 1 /\ j = 0) \/ (i = 2 /\ j = 2)
                        \/ (i = 3 /\ n = 4 /\ j = 3) \/ (i >= n /\ j >= n)],
     frequencies |-> [t \in 0 .. n + 1 |-> 1]]

DeepAtlases == {JokerAtlas(3), JokerAtlas(4)}

\* a Height x DeepWidth map, all Wildcard but for the last cell of the first
\* column, which is Fixed to the last tile
DeepMap(atlas) ==
    [c \in GridCells(Height, DeepWidth) |->
        IF c = <<Height - 1, 0>> THEN Fixed(NumTiles(atlas) - 1) ELSE Wildcard]

InitDeep ==
    \/ SolverInit("bt")
    \/ \E atlas \in DeepAtlases : SolverInitWith("bt", atlas, DeepMap(atlas))

NextDeep == NextBt

SpecDeep == InitDeep /\ [][NextDeep]_vars

----------------------------------------------------------------------------
(* Backtracking: what MAX_BACKTRACK_ATTEMPTS counts                         *)

\* a propagation of the backtracking solver has just found an empty domain
\* (inconsistency_found, backtracking.rs 341-344 and 438-441)
FindsContradiction ==
    /\ algo = "bt"
    /\ pc \in {"propagate", "bt_propagate"}
    /\ \/ pc' = "backtrack"
       \/ pc' = "failed" /\ error'.kind = "BacktrackExhausted"

\* C34: every contradiction found by a propagation of the backtracking
\* solver, after a first decision or after a retry inside the backtrack step,
\* adds one to backtrack_attempts, and the run fails with BacktrackExhausted
\* as soon as the count exceeds MAX_BACKTRACK_ATTEMPTS.
C34_EveryContradictionCounted ==
    [][ FindsContradiction =>
            /\ backtrack_attempts' = backtrack_attempts + 1
            /\ (backtrack_attempts' > MAX_BACKTRACK_ATTEMPTS
                    <=> (pc' = "failed" /\ error'.kind = "BacktrackExhausted")) ]_vars

----------------------------------------------------------------------------
(* Backtracking: completeness of the search                                 *)

\* the tile given to cell c by the row-major sequence t of tiles
TileAt(m, t, c) == t[c[1] * GridWidth(m) + c[2] + 1]

RECURSIVE Extends(_, _, _, _)
\* the tiles t given to the first k - 1 cells of m can be extended to all
\* cells so that every participating cell has a tile of its seed's domain and
\* every two participating neighbours have tiles that allow each other
Extends(m, r, k, t) ==
    IF k > Cardinality(DOMAIN m) THEN TRUE
    ELSE LET c == CellSeqOf(m)[k]
         IN IF mask(m)[c] THEN Extends(m, r, k + 1, Append(t, 0))
            ELSE \E u \in domain(m[c], RulesLen(r)) :
                   /\ \A d \in {"North", "West"} :
                        LET c2 == <<c[1] + delta_from_direction(d)[1],
                                    c[2] + delta_from_direction(d)[2]>>
                        IN (c2 \in DOMAIN m /\ ~mask(m)[c2])
                             => /\ TileAt(m, t, c2) \in r.masks[u][d]
                                /\ u \in r.masks[TileAt(m, t, c2)][opposite(d)]
                   /\ Extends(m, r, k + 1, Append(t, u))

\* some assignment of tiles satisfies the seeds and the adjacency masks
Solvable(m, r) == Extends(m, r, 1, <<>>)

\* the failures of a cap: the wall clock, MAX_BACKTRACK_ATTEMPTS
CapFailure ==
    /\ pc = "failed"
    /\ \/ error.kind = "Timeout"
       \/ error.kind = "BacktrackExhausted" /\ error.phase = "attempts"

SpecDeepFair == SpecDeep /\ WF_vars(NextDeep)

\* C35: the backtracking solver fails with an empty decision stack only on
\* inputs that no assignment of tiles satisfies; on an input that some
\* assignment satisfies every failure is the failure of a cap, and the run
\* ends, with Ok unless a cap is hit.
C35_SearchComplete ==
    /\ [](pc = "failed" /\ error.kind = "BacktrackExhausted" /\ error.phase = "exhausted"
            => ~Solvable(map, rules))
    /\ [](pc = "failed" /\ ~CapFailure => ~Solvable(map, rules))
    /\ (Solvable(map, rules) => <>(pc = "done" \/ CapFailure))

\* every tile of a second decision failed, the search came back to the
\* first decision, whose other tile propagated without contradiction, and
\* the run returned a map
C35_Witness ==
    /\ algo = "bt"
    /\ pc = "done"
    /\ GridWidth(map) = DeepWidth
    /\ backtrack_attempts > 1
    /\ Len(decision_stack) >= 2
    /\ Cardinality(decision_stack[1].tried_options) = 2

----------------------------------------------------------------------------
(* common.rs: the change journal of propagate_constraints                   *)

\* the domains after overwriting the changed cells with the journalled copies
RestoredDomains ==
    [c \in Cells |-> IF c \in backtrack_state.changed_cells
                     THEN backtrack_state.domain_copies[c] ELSE domains[c]]

\* the sizes after overwriting the changed cells with the journalled copies
RestoredSizes ==
    [c \in Cells |-> IF c \in backtrack_state.changed_cells
                     THEN backtrack_state.domain_size_copies[c] ELSE domain_sizes[c]]

\* C36: from the entry of propagate_constraints with an empty journal to its
\* return, and after it (Ok, contradiction or iteration limit), every cell
\* whose domain or size differs from the one on entry is in changed_cells,
\* and the journalled copies put over the domains and sizes give the domains
\* and sizes of the entry.
C36_JournalRestoresEntryState ==
    (algo = "common" /\ draws > 0)
    => /\ \A c \in Cells :
            (domains[c] # domains_before[c] \/ domain_sizes[c] # sizes_before[c])
                => c \in backtrack_state.changed_cells
       /\ RestoredDomains = domains_before
       /\ RestoredSizes = sizes_before

\* propagate_constraints has returned a contradiction after it changed the
\* domains of two cells or more
C36_Witness ==
    /\ algo = "common"
    /\ pc = "failed"
    /\ error.phase = "collapse"
    /\ error.kind = "Contradiction"
    /\ Cardinality({c \in Cells : domains[c] # domains_before[c]}) >= 2

----------------------------------------------------------------------------
(* TilesetBuilder::add_tiles.  An image is a 2 x 2 square of pixels in       *)
(* row-major order; extract_tiles and transform belong to the photo crate:  *)
(* a call is given the extracted patches, and three transformations act on  *)
(* a patch                                                                  *)

MaxPatches == 2
MaxTransformations == 2
MaxAddTilesCalls == 2

Transformations == {"Identity", "Rotate90", "FlipHorizontal"}

\* new_image.transform(transform)
Transform(image, transform) ==
    CASE transform = "Identity"       -> image
      [] transform = "Rotate90"       -> <<image[3], image[1], image[4], image[2]>>
      [] transform = "FlipHorizontal" -> <<image[2], image[1], image[4], image[3]>>

\* the patches image.extract_tiles(tile_size, overlap) can return
Patches == {<<0, 0, 0, 0>>, <<1, 0, 0, 0>>, <<0, 1, 0, 0>>, <<1, 1, 0, 0>>}

SeqsUpTo(S, n) == UNION {[1 .. k -> S] : k \in 0 .. n}

\* self.tiles.iter().position(|tile| tile == &transformed_image), 0 for None
Position(tiles, image) ==
    IF \E i \in 1 .. Len(tiles) : tiles[i] = image
    THEN Min({i \in 1 .. Len(tiles) : tiles[i] = image})
    ELSE 0

\* mutant of AddOne: the image is pushed without looking it up
AddOneAlwaysPush(b, image) ==
    [tiles |-> Append(b.tiles, image), frequencies |-> Append(b.frequencies, 1)]

\* the body of the inner loop: the frequency of a tile already held is
\* incremented, a new tile is pushed with frequency 1
AddOne(b, image) ==
    LET index == Position(b.tiles, image)
    IN IF index # 0
       THEN [tiles |-> b.tiles,
             frequencies |-> [b.frequencies EXCEPT ![index] = @ + 1]]
       ELSE [tiles |-> Append(b.tiles, image), frequencies |-> Append(b.frequencies, 1)]

RECURSIVE AddTransformed(_, _, _, _)
\* for &transform in transformations, from the k-th on
AddTransformed(b, new_image, transformations, k) ==
    IF k > Len(transformations) THEN b
    ELSE AddTransformed(AddOne(b, Transform(new_image, transformations[k])),
                        new_image, transformations, k + 1)

RECURSIVE AddTiles(_, _, _, _)
\* for new_image in image.extract_tiles(..), from the p-th patch on
AddTiles(b, patches, transformations, p) ==
    IF p > Len(patches) THEN b
    ELSE AddTiles(AddTransformed(b, patches[p], transformations, 1),
                  patches, transformations, p + 1)

RECURSIVE Looked(_, _, _, _)
\* the transformed images in the order the loops look them up
Looked(patches, transformations, p, k) ==
    IF p > Len(patches) THEN <<>>
    ELSE IF k > Len(transformations) THEN Looked(patches, transformations, p + 1, 1)
    ELSE <<Transform(patches[p], transformations[k])>>
            \o Looked(patches, transformations, p, k + 1)

\* TilesetBuilder::new
InitBuilder ==
    /\ tb_tiles = <<>>
    /\ tb_frequencies = <<>>
    /\ tb_processed = <<>>
    /\ tb_transformations = <<>>
    /\ tb_calls = 0
    /\ tb_pc = "new"
    /\ SolverIdle
    /\ RulesIdle
    /\ TextIdle
    /\ RuleSetIdle
    /\ BorderIdle
    /\ ChunkIdle
    /\ SharedIdle
    /\ CommonIdle

\* one call of add_tiles, with the assertion that ends it
AddTilesCall ==
    /\ tb_pc \in {"new", "returned"}
    /\ tb_calls < MaxAddTilesCalls
    /\ \E patches \in SeqsUpTo(Patches, MaxPatches) :
         \E transformations \in SeqsUpTo(Transformations, MaxTransformations) :
           LET b == AddTiles([tiles |-> tb_tiles, frequencies |-> tb_frequencies],
                             patches, transformations, 1)
           IN /\ tb_tiles' = b.tiles
              /\ tb_frequencies' = b.frequencies
              /\ tb_processed' = tb_processed \o Looked(patches, transformations, 1, 1)
              /\ tb_transformations' = transformations
              /\ tb_pc' = IF Len(b.frequencies) = Len(b.tiles)
                          THEN "returned" ELSE "panicked"
    /\ tb_calls' = tb_calls + 1
    /\ UNCHANGED <<solverVars, rulesVars, textVars, ruleSetVars, borderVars, chunkVars,
                   sharedVars, commonVars>>

NextBuilder == AddTilesCall

SpecBuilder == InitBuilder /\ [][NextBuilder]_vars

\* the images of s without repetition, in the order of their first occurrence
RECURSIVE FirstOccurrences(_)
FirstOccurrences(s) ==
    IF s = <<>> THEN <<>>
    ELSE LET front == FirstOccurrences(SubSeq(s, 1, Len(s) - 1))
             last == s[Len(s)]
         IN IF \E i \in 1 .. Len(front) : front[i] = last THEN front
            ELSE Append(front, last)

RECURSIVE SumSeq(_)
SumSeq(s) == IF s = <<>> THEN 0 ELSE Head(s) + SumSeq(Tail(s))

\* C37: after any sequence of add_tiles calls the tiles of the builder are
\* pairwise distinct, tiles and frequencies have the same length, every
\* frequency is at least 1, the frequencies add up to the number of (patch,
\* transform) pairs processed, and the tiles are the processed images in the
\* order of their first occurrence.
C37_BuilderInvariant ==
    tb_pc \in {"new", "returned", "panicked"}
    => /\ tb_pc # "panicked"
       /\ \A i, j \in 1 .. Len(tb_tiles) : tb_tiles[i] = tb_tiles[j] => i = j
       /\ Len(tb_frequencies) = Len(tb_tiles)
       /\ \A i \in 1 .. Len(tb_frequencies) : tb_frequencies[i] >= 1
       /\ SumSeq(tb_frequencies) = Len(tb_processed)
       /\ tb_tiles = FirstOccurrences(tb_processed)
       /\ \A i \in 1 .. Len(tb_tiles) :
            tb_frequencies[i] =
                Cardinality({k \in 1 .. Len(tb_processed) : tb_processed[k] = tb_tiles[i]})

\* two calls have been made, a tile was met again (frequency 2 or more) and
\* two tiles or more are held
C37_Witness ==
    /\ tb_pc = "returned"
    /\ tb_calls = 2
    /\ Len(tb_tiles) >= 2
    /\ \E i \in 1 .. Len(tb_frequencies) : tb_frequencies[i] >= 2
    /\ Len(tb_processed) > Len(tb_tiles)

\* C38: add_tiles called with an empty list of transformations is rejected
\* with a failure: it does not return a builder.
C38_EmptyTransformationsRejected ==
    (tb_pc \in {"returned", "panicked"} /\ tb_transformations = <<>>)
        => tb_pc = "panicked"

----------------------------------------------------------------------------
(* The geometry of the directions *)

\* the neighbour of (y, x) in direction d in the geometry of the learner:
\* North is the side of row 0
LearnerNeighbour(c, d) ==
    CASE d = "North" -> <<c[1] - 1, c[2]>>
      [] d = "South" -> <<c[1] + 1, c[2]>>
      [] d = "East"  -> <<c[1], c[2] + 1>>
      [] d = "West"  -> <<c[1], c[2] - 1>>

\* every pair of adjacent participating cells of res satisfies the masks in
\* the geometry of the learner
LearnerValid(res) ==
    \A c \in Participating : \A d \in Direction :
        LET b == LearnerNeighbour(c, d)
        IN (b \in Participating) =>
              res[b].index \in rules.masks[res[c].index][d]

\* C39: every solver variant uses the geometry of the learner (North of (y, x)
\* is (y-1, x), South (y+1, x), East (y, x+1), West (y, x-1)): a map a variant
\* returns, valid for the arcs that variant propagated, has
\* tile(y-1, x) in mask[tile(y, x)][North], and so on for the other directions.
C39_OneGeometry ==
    (pc = "done" /\ AllFixed(result) /\ AdjacencyValid(algo, result))
        => LearnerValid(result)

----------------------------------------------------------------------------
(* The seeds of the input map *)

\* C40: whenever a solver returns Ok, every cell that is Fixed(i) in the input
\* map is Fixed(i) in the map returned, and no step of collapse changes the
\* input map.
C40_SeedsKeptInputUntouched ==
    /\ [](pc = "done" =>
            \A c \in Cells : map[c].tag = "Fixed" => result[c] = map[c])
    /\ [][map' = map]_vars

\* a solver returned Ok for a map with two seeds of different tiles, and a
\* cell that was Wildcard holds a tile different from the first seed's
C40_Witness ==
    /\ pc = "done"
    /\ \E c, e \in Cells : map[c].tag = "Fixed" /\ map[e].tag = "Fixed"
                           /\ map[c].index # map[e].index
    /\ \E c \in Cells :
         /\ map[c].tag = "Fixed"
         /\ result[c] = map[c]
         /\ \E b \in Cells : map[b] = Wildcard /\ result[b].index # map[c].index

====
